---- MODULE Spec2Model ----
(***************************************************************************)
(* A model of the raytracer: vector algebra, the four primitives' hit      *)
(* routines, the scene aggregate, the shadow-tested Lambert shader and     *)
(* the recursive integrator ray_color.                                     *)
(*                                                                         *)
(* f64 values are modelled bit for bit: every operation rounds its exact  *)
(* result to the nearest binary64, ties to even, as the machine does.      *)
(***************************************************************************)
EXTENDS Integers, Sequences, FiniteSets, TLC

(***************************************************************************)
(* f64 arithmetic: IEEE 754 binary64 with round-to-nearest-even            *)
(*                                                                         *)
(* A value is <<s, e, m>>: the sign s, the exponent e of the last place    *)
(* and the mantissa m, four limbs of LimbBits bits, least significant      *)
(* first.  A finite value is s * M * 2^e with M the number m spells: a     *)
(* normal one has 2^52 <= M < 2^53, a subnormal one has e = MinExp and     *)
(* M < 2^52, a zero has M = 0 and e = 0 and keeps its sign: 0.0 has s = 1  *)
(* and -0.0 has s = -1.  SpecialExp marks +inf (s = 1), -inf (s = -1) and  *)
(* NaN (s = 0).  The two zeros compare equal and differ as divisors and    *)
(* in the sign of what they are multiplied by.                             *)
(***************************************************************************)
IAbs(n) == IF n < 0 THEN -n ELSE n

LimbBits == 14
LimbBase == 2 ^ LimbBits
MantBits == 53
MinExp == -1074
MaxExp == 971
SpecialExp == 2000

NoLimbs == <<0, 0, 0, 0>>

Zero == <<1, 0, NoLimbs>>
NegZero == <<-1, 0, NoLimbs>>
Infinity == <<1, SpecialExp, NoLimbs>>
NegInfinity == <<-1, SpecialExp, NoLimbs>>
NaN == <<0, SpecialExp, NoLimbs>>

\* the values; the operations below are functions on them
F64 == {-1, 0, 1} \X Int \X Seq(Nat)

IsSpecial(a) == a[2] = SpecialExp
IsInf(a) == a[2] = SpecialExp /\ a[1] # 0
IsZero(a) == a[2] = 0 /\ a[3] = NoLimbs

\* sequences of limbs, and columns of integers on their way to limbs
Digits == Seq(Int)

\* limb i of the number n, zero beyond its ends
Limb(n, i) == IF i >= 1 /\ i <= Len(n) THEN n[i] ELSE 0

\* the limbs of the number whose limb i is cols[i], any integer, on top of
\* the carry c
Carry[cols \in Digits, i \in Int, c \in Int] ==
    IF i > Len(cols) THEN <<c>>
    ELSE <<(cols[i] + c) % LimbBase>>
         \o Carry[cols, i + 1, (cols[i] + c) \div LimbBase]

Limbs(cols) == Carry[cols, 1, 0]

\* the highest limb of n up to limb i that is not zero, 0 if none is
TopLimb[n \in Digits, i \in Int] ==
    IF i = 0 THEN 0 ELSE IF n[i] # 0 THEN i ELSE TopLimb[n, i - 1]

BitsOf[x \in Int] == IF x = 0 THEN 0 ELSE 1 + BitsOf[x \div 2]

\* the bits of n whose top limb is limb top
BitLenFrom[n \in Digits, top \in Int] ==
    IF top = 0 THEN 0 ELSE LimbBits * (top - 1) + BitsOf[n[top]]

\* the number of bits of n
BitLen(n) == BitLenFrom[n, TopLimb[n, Len(n)]]

\* limb j of floor(n * 2^k) for any k: the low bits of one limb of n above
\* the high bits of the limb below it
ShiftLimb(n, k, j) ==
    ((Limb(n, j - (k \div LimbBits)) % (2 ^ (LimbBits - (k % LimbBits))))
     * (2 ^ (k % LimbBits)))
    + (Limb(n, j - (k \div LimbBits) - 1) \div (2 ^ (LimbBits - (k % LimbBits))))

\* the low len limbs of floor(n * 2^k)
Shift[n \in Digits, k \in Int, len \in Int] == [j \in 1..len |-> ShiftLimb(n, k, j)]

Shift4(n, k) == Shift[n, k, 4]
Shift9(n, k) == Shift[n, k, 9]

\* bit k (from 0) of n
Bit(n, k) == (Limb(n, (k \div LimbBits) + 1) \div (2 ^ (k % LimbBits))) % 2

\* some bit of n below bit k is set
AnyBelow(n, k) ==
    /\ k > 0
    /\ TopLimb[Shift[n, IF k >= LimbBits * Len(n) THEN 0 ELSE LimbBits * Len(n) - k,
                     Len(n)], Len(n)] # 0

\* n as an integer, for n < 2^31
LimbsToInt[n \in Digits, i \in Int] ==
    IF i > Len(n) THEN 0 ELSE n[i] + LimbBase * LimbsToInt[n, i + 1]

IntLimbs(k) == <<k % LimbBase, (k \div LimbBase) % LimbBase, k \div (LimbBase * LimbBase), 0>>

\* the comparison of two numbers of the same length: -1, 0 or 1
CmpFrom[a \in Digits, b \in Digits, i \in Int] ==
    IF i = 0 THEN 0
    ELSE IF a[i] < b[i] THEN -1
    ELSE IF a[i] > b[i] THEN 1
    ELSE CmpFrom[a, b, i - 1]

Cmp(a, b) == CmpFrom[a, b, Len(a)]

First4(n) == <<n[1], n[2], n[3], n[4]>>

\* the value of the sign s, the mantissa r (at most 2^53) and the place e
PackOut[s \in Int, r \in Digits, e \in Int] ==
    IF First4(r) = NoLimbs THEN <<s, 0, NoLimbs>>
    ELSE IF r[4] = 2 ^ (MantBits - 3 * LimbBits)
    THEN (IF e + 1 > MaxExp THEN <<s, SpecialExp, NoLimbs>>
          ELSE <<s, e + 1, <<0, 0, 0, 2 ^ (MantBits - 1 - 3 * LimbBits)>> >>)
    ELSE IF e > MaxExp THEN <<s, SpecialExp, NoLimbs>>
    ELSE <<s, e, First4(r)>>

\* the mantissa q (below 2^53) of the place e, one more if up, as a value
PackUp[s \in Int, q \in Digits, e \in Int, up \in BOOLEAN] ==
    PackOut[s, IF up THEN Limbs(<<q[1] + 1, q[2], q[3], q[4]>>) ELSE q, e]

\* the value of s * (n + x) * 2^e rounded at bit `by` of n, ties to even,
\* with 0 < x < 1 if sticky and x = 0 if not
PackAt[s \in Int, n \in Digits, e \in Int, sticky \in BOOLEAN, by \in Int] ==
    PackUp[s, Shift[n, -by, 4], e + by,
           /\ by > 0
           /\ Bit(n, by - 1) = 1
           /\ (sticky \/ AnyBelow(n, by - 1) \/ Bit(n, by) = 1)]

\* the same for n of len bits: 53 bits are kept, fewer below the normal range
PackLen[s \in Int, n \in Digits, e \in Int, sticky \in BOOLEAN, len \in Int] ==
    IF len = 0 THEN <<s, 0, NoLimbs>>
    ELSE PackAt[s, n, e, sticky,
                IF e + len - MantBits < MinExp THEN MinExp - e ELSE len - MantBits]

\* the f64 nearest to s * (n + x) * 2^e
Pack(s, n, e, sticky) == PackLen[s, n, e, sticky, BitLen(n)]

\* the f64 of the integer whose magnitude is n, of len <= 53 bits: no bit is
\* lost
OfLimbs[s \in Int, n \in Digits, len \in Int] ==
    IF len = 0 THEN <<s, 0, NoLimbs>>
    ELSE <<s, len - MantBits, First4(Shift4(n, MantBits - len))>>

\* the f64 of the integer k
OfInt[k \in Int] == OfLimbs[IF k < 0 THEN -1 ELSE 1, IntLimbs(IAbs(k)), BitLen(IntLimbs(IAbs(k)))]

I(k) == OfInt[k]

One == I(1)

RNeg(a) == <<-a[1], a[2], a[3]>>
RAbs(a) == <<IAbs(a[1]), a[2], a[3]>>

\* the order of the magnitudes of a and b: -1, 0 or 1
CmpMag(a, b) ==
    IF a[2] < b[2] THEN -1 ELSE IF a[2] > b[2] THEN 1 ELSE Cmp(a[3], b[3])

\* a < b; the zeros are equal, below what is positive and above what is
\* negative
Less[a \in F64, b \in F64] ==
    IF a = NaN \/ b = NaN THEN FALSE
    ELSE IF IsZero(a) THEN ~IsZero(b) /\ b[1] > 0
    ELSE IF IsZero(b) THEN a[1] < 0
    ELSE IF a[1] # b[1] THEN a[1] < b[1]
    ELSE a[1] * CmpMag(a, b) < 0

\* a == b: 0.0 == -0.0, and NaN equals nothing
REq(a, b) == a # NaN /\ b # NaN /\ ~Less[a, b] /\ ~Less[b, a]

RLt(a, b) == Less[a, b]
RGt(a, b) == Less[b, a]
RLe(a, b) == a # NaN /\ b # NaN /\ ~Less[b, a]
RGe(a, b) == RLe(b, a)

\* f64::max, which ignores a NaN operand; of two equal operands, the zeros of
\* either sign among them, it is the first
Larger[a \in F64, b \in F64] ==
    IF a = NaN THEN b ELSE IF b = NaN THEN a ELSE IF Less[a, b] THEN b ELSE a

RMax(a, b) == Larger[a, b]

\* f64::clamp(lo, hi): a itself unless it is below lo or above hi
Clamped[a \in F64, lo \in F64, hi \in F64] ==
    IF RLt(a, lo) THEN lo ELSE IF RGt(a, hi) THEN hi ELSE a

RClamp(a, lo, hi) == Clamped[a, lo, hi]

\* the number a + sgn * b of two numbers of the same length
Comb[a \in Digits, b \in Digits, sgn \in Int] ==
    Limbs([i \in 1..Len(a) |-> a[i] + sgn * b[i]])

\* the larger number less the smaller for order # 0, the sum for order = 0
CombBy[a \in Digits, b \in Digits, order \in Int] ==
    IF order < 0 THEN Comb[b, a, -1] ELSE Comb[a, b, IF order = 0 THEN 1 ELSE -1]

\* the rounded sum of sa * A * 2^e and sb * (B + x) * 2^e, with 0 < x < 1
\* if sticky and x = 0 if not; order tells which of A and B is the larger;
\* what cancels leaves 0.0
AddOrdered[sa \in Int, A \in Digits, sb \in Int, B \in Digits, e \in Int,
           sticky \in BOOLEAN, order \in Int] ==
    IF sa # sb /\ order = 0 THEN Zero
    ELSE Pack(IF sa = sb \/ order > 0 THEN sa ELSE sb,
              CombBy[A, B, IF sa = sb THEN 0 ELSE order], e, sticky)

AddExact(sa, A, sb, B, e, sticky) == AddOrdered[sa, A, sb, B, e, sticky, Cmp(A, B)]

\* the places beyond which the smaller operand of a sum only tips the
\* rounding of the larger
FarPlaces == MantBits + 7

\* the part of the smaller operand that is summed when it lies beyond
\* FarPlaces: nothing of one of the same sign and a whole unit of one of the
\* other sign, the rest being left to the rounding
FarPart(same) == IF same THEN <<0, 0, 0, 0, 0, 0, 0, 0, 0>> ELSE <<1, 0, 0, 0, 0, 0, 0, 0, 0>>

\* the sum of the finite non-zero hi and lo, hi of the higher last place
AddAligned[hi \in F64, lo \in F64, far \in BOOLEAN] ==
    AddExact(hi[1], Shift9(hi[3], IF far THEN 2 ELSE hi[2] - lo[2]),
             lo[1], IF far THEN FarPart(hi[1] = lo[1]) ELSE Shift9(lo[3], 0),
             IF far THEN hi[2] - 2 ELSE lo[2], far)

\* the sum of the finite non-zero a and b
AddFinite[hi \in F64, lo \in F64] == AddAligned[hi, lo, hi[2] - lo[2] > FarPlaces]

\* a + b; two zeros give the zero of their sign if they share it, else 0.0
Sum[a \in F64, b \in F64] ==
    IF a = NaN \/ b = NaN THEN NaN
    ELSE IF IsInf(a) THEN (IF IsInf(b) /\ a[1] # b[1] THEN NaN ELSE a)
    ELSE IF IsInf(b) THEN b
    ELSE IF IsZero(a) THEN (IF IsZero(b) /\ a[1] # b[1] THEN Zero ELSE b)
    ELSE IF IsZero(b) THEN a
    ELSE AddFinite[IF a[2] >= b[2] THEN a ELSE b, IF a[2] >= b[2] THEN b ELSE a]

RAdd(a, b) == Sum[a, b]

RSub(a, b) == Sum[a, RNeg(b)]

\* column k of the product of two mantissas
MulCols(a, b) ==
    <<a[1] * b[1],
      a[1] * b[2] + a[2] * b[1],
      a[1] * b[3] + a[2] * b[2] + a[3] * b[1],
      a[1] * b[4] + a[2] * b[3] + a[3] * b[2] + a[4] * b[1],
      a[2] * b[4] + a[3] * b[3] + a[4] * b[2],
      a[3] * b[4] + a[4] * b[3],
      a[4] * b[4]>>

\* a * b: the sign is the product of the signs, also of a zero; inf * 0 is
\* NaN
Product[a \in F64, b \in F64] ==
    IF a = NaN \/ b = NaN THEN NaN
    ELSE IF IsInf(a) \/ IsInf(b)
    THEN (IF IsZero(a) \/ IsZero(b) THEN NaN
          ELSE <<a[1] * b[1], SpecialExp, NoLimbs>>)
    ELSE IF IsZero(a) \/ IsZero(b) THEN <<a[1] * b[1], 0, NoLimbs>>
    ELSE Pack(a[1] * b[1], Limbs(MulCols(a[3], b[3])), a[2] + b[2], FALSE)

RMul(a, b) == Product[a, b]

\* the mantissa of a finite non-zero a shifted up to 53 bits and k more, and
\* the last place that goes with 53 bits
NormMant(a, k) == Shift4(a[3], MantBits + k - BitLen(a[3]))
NormExp(a) == a[2] - (MantBits - BitLen(a[3]))

\* what r - q * d leaves, r of five limbs and d of four: five limbs and the
\* carry out of them, negative when q * d is more than r
DivLeft(r, d, q) ==
    Limbs(<<r[1] - q * d[1], r[2] - q * d[2], r[3] - q * d[3], r[4] - q * d[4], r[5]>>)

\* the largest digit at most q that leaves nothing negative, and what it leaves
DivTry[r \in Digits, d \in Digits, q \in Int, left \in Digits] ==
    IF left[6] < 0 THEN DivTry[r, d, q - 1, DivLeft(r, d, q - 1)]
    ELSE <<q, First4(left)>>

\* the guess of the next digit from the top limbs of r and of d
DivGuess[r \in Digits, d \in Digits, q \in Int] == IF q >= LimbBase THEN LimbBase - 1 ELSE q

\* one digit of a long division: for the remainder so far r * LimbBase + x
\* as five limbs, <<q, what q * d leaves of it>>; the top limb of d has its
\* top bit set, so the guess is at most two too large
DivFrom[r \in Digits, d \in Digits, q \in Int] == DivTry[r, d, q, DivLeft(r, d, q)]

DivDigit(r, x, d) ==
    DivFrom[<<x, r[1], r[2], r[3], r[4]>>, d,
            DivGuess[r, d, (r[4] * LimbBase + r[3]) \div d[4]]]

\* a digit of a quotient and what it leaves
DivStep == Int \X Digits

\* the quotient and the remainder of n over d from the last step s, the
\* digits q before it and the k limbs of n yet to bring down
LongDivFrom[n \in Digits, d \in Digits, k \in Int, s \in DivStep, q \in Digits] ==
    IF k = 0 THEN <<(<<s[1]>> \o q), s[2]>>
    ELSE LongDivFrom[n, d, k - 1, DivDigit(s[2], n[k], d), <<s[1]>> \o q]

\* the top four limbs of n
High4(n) == <<n[5], n[6], n[7], n[8]>>

\* the first digit, 0 or 1, of the quotient whose order of High4(n) and d
\* is c, and what it leaves
FirstStep[n \in Digits, d \in Digits, c \in Int] ==
    IF c >= 0 THEN <<1, First4(Comb[High4(n), d, -1])>> ELSE <<0, High4(n)>>

\* <<floor(n / d), n mod d>> for n of eight limbs and d of four with its top
\* bit set and floor(n / LimbBase^4) < 2 d
LongDiv[n \in Digits, d \in Digits] ==
    LongDivFrom[n, d, 4, FirstStep[n, d, Cmp(High4(n), d)], <<>>]

\* the bits the quotient of two mantissas is computed to
QuotBits == MantBits + 3

DivPack[s \in Int, e \in Int, qr \in Seq(Digits)] == Pack(s, qr[1], e, qr[2] # NoLimbs)

\* a / b: the sign is the product of the signs, also of the zeros; x / 0 is
\* an infinity, 0 / 0 and inf / inf are NaN, x / inf and 0 / x are zeros
Quotient[a \in F64, b \in F64] ==
    IF a = NaN \/ b = NaN THEN NaN
    ELSE IF IsInf(a) THEN (IF IsInf(b) THEN NaN
                           ELSE <<a[1] * b[1], SpecialExp, NoLimbs>>)
    ELSE IF IsInf(b) THEN <<a[1] * b[1], 0, NoLimbs>>
    ELSE IF IsZero(b) THEN (IF IsZero(a) THEN NaN
                            ELSE <<a[1] * b[1], SpecialExp, NoLimbs>>)
    ELSE IF IsZero(a) THEN <<a[1] * b[1], 0, NoLimbs>>
    ELSE DivPack[a[1] * b[1], NormExp(a) - NormExp(b) - QuotBits,
                 LongDiv[NoLimbs \o NormMant(a, QuotBits - MantBits),
                         NormMant(b, QuotBits - MantBits)]]

RDiv(a, b) == Quotient[a, b]

\* the f64 nearest to n / d, as a decimal literal of that value is read
F(n, d) == Quotient[OfInt[n], OfInt[d]]

\* the largest f64 below 1, 1 - 2^-53
BelowOne == <<1, -MantBits, <<LimbBase - 1, LimbBase - 1, LimbBase - 1, (2 ^ 11) - 1>>>>

\* 10^k for 0 <= k <= 22, where it is an f64
Pow10[k \in Nat] == IF k = 0 THEN One ELSE Product[OfInt[10], Pow10[k - 1]]

\* the literal 1e-k
Eps(k) == Quotient[One, Pow10[k]]

\* the largest r in lo..hi with r * r <= n
ISqrtIn[n \in Int, lo \in Int, hi \in Int] ==
    IF lo >= hi THEN lo
    ELSE IF (((lo + hi + 1) \div 2) * ((lo + hi + 1) \div 2)) <= n
         THEN ISqrtIn[n, (lo + hi + 1) \div 2, hi]
         ELSE ISqrtIn[n, lo, ((lo + hi + 1) \div 2) - 1]

\* the top two limbs of n of eight limbs, as one integer
Top2(n) == n[8] * LimbBase + n[7]

\* <<s, r>> with s = floor(sqrt(t)) and r = t - s * s for t the top four
\* limbs of n, from the root s2 of the top two and what it leaves: the next
\* digit is the quotient of what is left and the limb after by 2 s2, lowered
\* by one if it leaves less than its square
HalfRootFix[s \in Int, r \in Int] == IF r < 0 THEN <<s - 1, r + 2 * s - 1>> ELSE <<s, r>>
HalfRootOf[n \in Digits, s2 \in Int, q \in Int, u \in Int] ==
    HalfRootFix[s2 * LimbBase + q, u * LimbBase + n[5] - q * q]
HalfRootFrom[n \in Digits, s2 \in Int, r2 \in Int] ==
    HalfRootOf[n, s2, (r2 * LimbBase + n[6]) \div (2 * s2),
               (r2 * LimbBase + n[6]) % (2 * s2)]
HalfRootTop[n \in Digits, s2 \in Int] == HalfRootFrom[n, s2, Top2(n) - s2 * s2]
HalfRoot(n) == HalfRootTop[n, ISqrtIn[Top2(n), 0, LimbBase - 1]]

\* the places that take twice a root of 28 bits to a divisor of LongDiv
RootShift == (MantBits + 1) \div 2

\* the root s1 * 2^28 + q as four limbs
RootLimbs[s1 \in Int, q \in Digits] ==
    First4(Limbs(<<q[1], q[2], q[3] + (s1 % LimbBase), q[4] + (s1 \div LimbBase)>>))

\* u * 2^28 + the low two limbs of n - q * q, as limbs and the carry out of
\* them, negative when the square is the larger
RootLeft[n \in Digits, q \in Digits, u \in Digits] ==
    Limbs(<<n[1] - q[1] * q[1],
            n[2] - 2 * q[1] * q[2],
            u[1] - 2 * q[1] * q[3] - q[2] * q[2],
            u[2] - 2 * q[2] * q[3],
            u[3] - q[3] * q[3]>>)

\* what is left of the root s, or of the root one lower when less is
\* left of s than nothing: left + 2 s - 1
RootLeftAfter(s, left, less) ==
    IF less
    THEN <<left[1] + 2 * s[1] - 1, left[2] + 2 * s[2], left[3] + 2 * s[3],
           left[4] + 2 * s[4], left[5], left[6]>>
    ELSE left

AllZero[n \in Digits] == \A i \in 1..Len(n) : n[i] = 0

\* <<floor(sqrt(n)), whether n is not its square>> from the root s and what
\* is left, lowered by one if that is negative
RootFix[s \in Digits, left \in Digits] ==
    <<First4(Limbs(<<s[1] - (IF left[6] < 0 THEN 1 ELSE 0), s[2], s[3], s[4]>>)),
      ~AllZero[Limbs(RootLeftAfter(s, left, left[6] < 0))]>>

RootOf[n \in Digits, s1 \in Int, qr \in Seq(Digits)] ==
    RootFix[RootLimbs[s1, qr[1]], RootLeft[n, qr[1], Shift4(qr[2], -RootShift)]]

\* the root of n of eight limbs, of 111 or 112 bits, from the root s1 and
\* the remainder r1 of its top four limbs: the low half of the root is the
\* quotient of r1 and the two limbs after by 2 s1
FullRoot[n \in Digits, sr \in Digits] ==
    RootOf[n, sr[1],
           LongDiv[Shift9(<<n[3], n[4], sr[2] % LimbBase,
                            (sr[2] \div LimbBase) % LimbBase,
                            sr[2] \div (LimbBase * LimbBase)>>, RootShift),
                   Shift4(IntLimbs(2 * sr[1]), RootShift)]]

SqrtPack[e \in Int, sr \in Digits \X BOOLEAN] == Pack(1, sr[1], e, sr[2])

\* the shift that takes a 53-bit mantissa of last place e to a radicand of
\* an even last place and of 111 or 112 bits
SqrtShift(e) == IF e % 2 = 0 THEN 58 ELSE 59

SqrtOf[n \in Digits, e \in Int] == SqrtPack[e, FullRoot[n, HalfRoot(n)]]

\* the root of the finite a > 0 whose 53-bit mantissa has the last place e
SqrtNorm[a \in F64, e \in Int] ==
    SqrtOf[Shift9(a[3], MantBits - BitLen(a[3]) + SqrtShift(e)), (e - SqrtShift(e)) \div 2]

\* f64::sqrt: a zero is its own root, -0.0 too
Root[a \in F64] ==
    IF a = NaN THEN NaN
    ELSE IF IsZero(a) THEN a
    ELSE IF a[1] < 0 THEN NaN
    ELSE IF IsInf(a) THEN a
    ELSE SqrtNorm[a, NormExp(a)]

Sqrt(a) == Root[a]

\* `as i32` of a finite a of magnitude below 2^31: the integer toward zero
Trunc(a) ==
    IF IsZero(a) THEN 0
    ELSE a[1] * LimbsToInt[Shift4(a[3], a[2]), 1]

(***************************************************************************)
(* math.rs: Vec3                                                           *)
(***************************************************************************)
Vec3(x, y, z) == [x |-> x, y |-> y, z |-> z]

\* the axes, and the vector whose component on each axis is f's
Axes == {"x", "y", "z"}
Vec3Of(f) == Vec3(f.x, f.y, f.z)

VAdd(a, b) == Vec3Of([i \in Axes |-> RAdd(a[i], b[i])])
VSub(a, b) == Vec3Of([i \in Axes |-> RSub(a[i], b[i])])
VMulS(a, t) == Vec3Of([i \in Axes |-> RMul(a[i], t)])
VMulV(a, b) == Vec3Of([i \in Axes |-> RMul(a[i], b[i])])
VDivS(a, t) == Vec3Of([i \in Axes |-> RDiv(a[i], t)])
VNeg(a) == Vec3(RNeg(a.x), RNeg(a.y), RNeg(a.z))

\* s[1] + s[2] + .. + s[k], summed from the left
SumTo[s \in Seq(F64), k \in Int] == IF k = 1 THEN s[1] ELSE Sum[SumTo[s, k - 1], s[k]]

\* p.x + p.y + p.z
SumXYZ(p) == SumTo[<<p.x, p.y, p.z>>, 3]

Dot(a, b) == SumXYZ(VMulV(a, b))
LengthSquared(a) == SumXYZ(VMulV(a, a))
Length(a) == Sqrt(LengthSquared(a))

\* unit without the test for a zero length
UnitAlwaysDivides(a) == VDivS(a, Length(a))

\* unit, given the length
UnitOfLength(a, len) == IF REq(len, Zero) THEN a ELSE VDivS(a, len)

Unit(a) == UnitOfLength(a, Length(a))

\* the mirror image of v about the normal n
Reflect(v, n) == VSub(v, VMulS(n, RMul(I(2), Dot(v, n))))

(***************************************************************************)
(* ray.rs: Ray                                                             *)
(***************************************************************************)
Ray(origin, direction) == [origin |-> origin, direction |-> direction]

RayAt(r, t) == VAdd(r.origin, VMulS(r.direction, t))

(***************************************************************************)
(* hittable.rs: HitRecord.  Option<HitRecord> is a sequence of length <= 1 *)
(***************************************************************************)
None == <<>>
Some(rec) == <<rec>>
IsSome(o) == o # <<>>

\* with_face_normal, given front_face
WithFace(front, p, outward_normal, t, albedo, reflectivity) ==
    [p |-> p, normal |-> IF front THEN outward_normal ELSE VNeg(outward_normal),
     t |-> t, albedo |-> albedo, reflectivity |-> reflectivity]

WithFaceNormal(r, p, outward_normal, t, albedo, reflectivity) ==
    WithFace(RLt(Dot(r.direction, outward_normal), Zero), p, outward_normal, t,
             albedo, reflectivity)

(***************************************************************************)
(* sphere.rs                                                               *)
(***************************************************************************)
\* the constructor that drops its reflectivity
SphereNewMatte(center, radius, albedo, reflectivity) ==
    [kind |-> "Sphere", center |-> center, radius |-> radius,
     albedo |-> albedo, reflectivity |-> Zero]

SphereNew(center, radius, albedo, reflectivity) ==
    [kind |-> "Sphere", center |-> center, radius |-> radius,
     albedo |-> albedo, reflectivity |-> reflectivity]

\* the two roots of the half-b quadratic, smaller first; <<>> if none is real
SphereRootsOf(half_b, a, sqrt_d) ==
    <<RDiv(RSub(RNeg(half_b), sqrt_d), a), RDiv(RAdd(RNeg(half_b), sqrt_d), a)>>

\* the roots, given the discriminant
SphereRootsOfDisc(half_b, a, discriminant) ==
    IF RLt(discriminant, Zero) THEN <<>>
    ELSE SphereRootsOf(half_b, a, Sqrt(discriminant))

\* the roots, given the coefficients of the quadratic
SphereRootsOfQuadratic(a, half_b, c) ==
    SphereRootsOfDisc(half_b, a, RSub(RMul(half_b, half_b), RMul(a, c)))

\* the roots, given oc = r.origin - self.center
SphereRootsFrom(s, r, oc) ==
    SphereRootsOfQuadratic(Dot(r.direction, r.direction), Dot(oc, r.direction),
                           RSub(Dot(oc, oc), RMul(s.radius, s.radius)))

SphereRoots(s, r) == SphereRootsFrom(s, r, VSub(r.origin, s.center))

\* the record, given p = r.at(root)
SphereRecordAt(s, r, root, p) ==
    Some(WithFaceNormal(r, p, VDivS(VSub(p, s.center), s.radius), root,
                        s.albedo, s.reflectivity))

SphereRecord(s, r, root) == SphereRecordAt(s, r, root, RayAt(r, root))

\* the choice that gives up when the smaller root is out of range
SphereChooseNearOnly(s, r, t_min, t_max, roots) ==
    IF roots = <<>> THEN None
    ELSE IF ~(RLt(roots[1], t_min) \/ RGt(roots[1], t_max))
         THEN SphereRecord(s, r, roots[1])
    ELSE None

\* the root after the two range tests: the smaller one if it is in range,
\* else the larger one if that is, <<>> if neither is
SphereRoot(t_min, t_max, roots) ==
    IF ~(RLt(roots[1], t_min) \/ RGt(roots[1], t_max)) THEN <<roots[1]>>
    ELSE IF RLt(roots[2], t_min) \/ RGt(roots[2], t_max) THEN <<>>
    ELSE <<roots[2]>>

\* the record of the root left, if one is
SphereRecordOf(s, r, root) ==
    IF root = <<>> THEN None ELSE SphereRecord(s, r, root[1])

\* the choice between the roots, none if the discriminant is negative
SphereChoose(s, r, t_min, t_max, roots) ==
    IF roots = <<>> THEN None
    ELSE SphereRecordOf(s, r, SphereRoot(t_min, t_max, roots))

SphereHit(s, r, t_min, t_max) ==
    SphereChoose(s, r, t_min, t_max, SphereRoots(s, r))

(***************************************************************************)
(* plane.rs                                                                *)
(***************************************************************************)
\* Plane::new as main.rs calls it, with the reflectivity as fourth argument
\* (the sphere scene's floor, the --add-plane loop and the default floor of
\* build_scene), kept in a field as the other primitives keep theirs.  The
\* plane.rs of this tree declares point, normal and albedo only
PlaneNew(point, normal, albedo, reflectivity) ==
    [kind |-> "Plane", point |-> point, normal |-> Unit(normal), albedo |-> albedo,
     reflectivity |-> reflectivity]

\* the sixth argument of with_face_normal, which takes six and gets five in
\* the plane.rs of this tree: the plane's reflectivity, as for the other
\* primitives
PlaneReflectivity(pl) == pl.reflectivity

\* the parallel-ray threshold 1e-6
PlaneEps == Eps(6)

\* the range check without its upper half
PlaneAtNoUpper(pl, r, t_min, t_max, t) ==
    IF RLt(t, t_min) THEN None
    ELSE Some(WithFaceNormal(r, RayAt(r, t), pl.normal, t, pl.albedo,
                             PlaneReflectivity(pl)))

\* the range check on t and the record
PlaneAt(pl, r, t_min, t_max, t) ==
    IF RLt(t, t_min) \/ RGt(t, t_max) THEN None
    ELSE Some(WithFaceNormal(r, RayAt(r, t), pl.normal, t, pl.albedo,
                             PlaneReflectivity(pl)))

\* the solve with the parallel check only on rays that start off the plane
PlaneSolveInPlane(pl, r, t_min, t_max, denom) ==
    IF RLt(RAbs(denom), PlaneEps)
    THEN IF REq(Dot(VSub(pl.point, r.origin), pl.normal), Zero)
         THEN PlaneAt(pl, r, t_min, t_max, t_min)
         ELSE None
    ELSE PlaneAt(pl, r, t_min, t_max,
                 RDiv(Dot(VSub(pl.point, r.origin), pl.normal), denom))

\* the parallel check on denom = dot(r.direction, self.normal) and the solve
PlaneSolve(pl, r, t_min, t_max, denom) ==
    IF RLt(RAbs(denom), PlaneEps) THEN None
    ELSE PlaneAt(pl, r, t_min, t_max,
                 RDiv(Dot(VSub(pl.point, r.origin), pl.normal), denom))

PlaneHit(pl, r, t_min, t_max) ==
    PlaneSolve(pl, r, t_min, t_max, Dot(r.direction, pl.normal))

(***************************************************************************)
(* cube.rs                                                                 *)
(***************************************************************************)
AabbNew(min, max) == [min |-> min, max |-> max]

\* the parallel-to-slab threshold 1e-12
SlabEps == Eps(12)

Axis(v, axis) == IF axis = 0 THEN v.x ELSE IF axis = 1 THEN v.y ELSE v.z

NormalNeg(axis) ==
    IF axis = 0 THEN Vec3(I(-1), Zero, Zero)
    ELSE IF axis = 1 THEN Vec3(Zero, I(-1), Zero)
    ELSE Vec3(Zero, Zero, I(-1))

\* the narrowing of the running (t_min, t_max, face_normal) by the slab's
\* entry t0 and exit t1 (already swapped), and the empty-interval return
AabbNarrow(st, t0, t1, enter_normal) ==
    IF RLe(IF RLt(t1, st.t_max) THEN t1 ELSE st.t_max,
           IF RGt(t0, st.t_min) THEN t0 ELSE st.t_min)
    THEN None
    ELSE Some([t_min |-> IF RGt(t0, st.t_min) THEN t0 ELSE st.t_min,
               t_max |-> IF RLt(t1, st.t_max) THEN t1 ELSE st.t_max,
               face_normal |-> IF RGt(t0, st.t_min) THEN enter_normal
                               ELSE st.face_normal])

\* the swap of t0 and t1, which flips the entry normal
AabbSwap(st, axis, t0, t1) ==
    IF RGt(t0, t1)
    THEN AabbNarrow(st, t1, t0, VNeg(NormalNeg(axis)))
    ELSE AabbNarrow(st, t0, t1, NormalNeg(axis))

\* the loop body that skips a parallel axis without looking at the origin
AabbSlabSkip(st, axis, origin, dir, minb, maxb) ==
    IF RLt(RAbs(dir), SlabEps)
    THEN Some(st)
    ELSE AabbSwap(st, axis,
                  RMul(RSub(minb, origin), RDiv(One, dir)),
                  RMul(RSub(maxb, origin), RDiv(One, dir)))

\* the loop body past the parallel test, given inv_d = 1.0 / dir
AabbSlabInv(st, axis, origin, inv_d, minb, maxb) ==
    AabbSwap(st, axis, RMul(RSub(minb, origin), inv_d), RMul(RSub(maxb, origin), inv_d))

\* the loop body for one axis, given the ray's and the box's coordinates on it
AabbSlab(st, axis, origin, dir, minb, maxb) ==
    IF RLt(RAbs(dir), SlabEps)
    THEN IF RLt(origin, minb) \/ RGt(origin, maxb) THEN None ELSE Some(st)
    ELSE AabbSlabInv(st, axis, origin, RDiv(One, dir), minb, maxb)

\* one iteration of the slab loop on the running (t_min, t_max, face_normal):
\* None for the early return, Some(state) to go on to the next axis
AabbAxis(b, r, axis, st) ==
    AabbSlab(st, axis, Axis(r.origin, axis), Axis(r.direction, axis),
             Axis(b.min, axis), Axis(b.max, axis))

RECURSIVE AabbLoop(_, _, _, _)
\* for axis in 0..3, from `axis` on, res being the previous iteration's outcome
AabbLoop(b, r, axis, res) ==
    IF res = None THEN None
    ELSE IF axis = 3 THEN Some(<<res[1].t_min, res[1].face_normal>>)
    ELSE AabbLoop(b, r, axis + 1, AabbAxis(b, r, axis, res[1]))

\* Some(<<t, face_normal>>) or None
AabbHit(b, r, t_min, t_max) ==
    AabbLoop(b, r, 0, Some([t_min |-> t_min, t_max |-> t_max,
                            face_normal |-> Vec3(Zero, Zero, Zero)]))

\* from_center_size, given the vector (h, h, h) of h = size * 0.5
CubeFromCenterHalf(center, half, albedo, reflectivity) ==
    [kind |-> "Cube",
     bounds |-> AabbNew(VSub(center, half), VAdd(center, half)),
     albedo |-> albedo, reflectivity |-> reflectivity]

\* the vector (h, h, h)
Splat(h) == Vec3(h, h, h)

CubeFromCenterSize(center, size, albedo, reflectivity) ==
    CubeFromCenterHalf(center, Splat(RMul(size, F(1, 2))), albedo, reflectivity)

\* the record for the slab test's outcome h
CubeRecord(cu, r, h) ==
    IF h = None THEN None
    ELSE Some(WithFaceNormal(r, RayAt(r, h[1][1]), h[1][2], h[1][1],
                             cu.albedo, cu.reflectivity))

CubeHit(cu, r, t_min, t_max) ==
    CubeRecord(cu, r, AabbHit(cu.bounds, r, t_min, t_max))

(***************************************************************************)
(* cylinder.rs                                                             *)
(***************************************************************************)
CylinderNew(center, radius, half_height, albedo, reflectivity) ==
    [kind |-> "Cylinder", center |-> center, radius |-> radius,
     half_height |-> half_height, albedo |-> albedo,
     reflectivity |-> reflectivity]

\* the thresholds 1e-12 on a and on rd.y
CylEps == Eps(12)

\* the tolerance 1e-9 on the height band and on the cap disk
CylTol == Eps(9)

\* the outward normal of the side at the local point (x, y, z): (x, 0, z) over
\* the radius, normalized
SideOutward(cy, local) ==
    Unit(Vec3(RDiv(local.x, cy.radius), Zero, RDiv(local.z, cy.radius)))

\* try_root past its tests, given the local point ro + t * rd
TryRootAt(cy, r, st, t, local) ==
    IF /\ RGe(local.y, RSub(RNeg(cy.half_height), CylTol))
       /\ RLe(local.y, RAdd(cy.half_height, CylTol))
    THEN [t_hit |-> t,
          hit_rec |-> Some(WithFaceNormal(r, RayAt(r, t), SideOutward(cy, local), t,
                                          cy.albedo, cy.reflectivity))]
    ELSE st

\* the closure try_root, on the running (t_hit, hit_rec)
TryRoot(cy, r, t_min, st, t) ==
    IF RGe(t, t_min) /\ RLe(t, st.t_hit)
    THEN TryRootAt(cy, r, st, t,
                   VAdd(VSub(r.origin, cy.center), VMulS(r.direction, t)))
    ELSE st

\* the side block past the discriminant test, given sqrt_d
CylinderSideRoots(cy, r, t_min, st, a, b, sqrt_d) ==
    TryRoot(cy, r, t_min,
            TryRoot(cy, r, t_min, st, RDiv(RSub(RNeg(b), sqrt_d), RMul(I(2), a))),
            RDiv(RAdd(RNeg(b), sqrt_d), RMul(I(2), a)))

\* the side block, given the discriminant
CylinderSideDisc(cy, r, t_min, st, a, b, disc) ==
    IF ~RGe(disc, Zero) THEN st
    ELSE CylinderSideRoots(cy, r, t_min, st, a, b, Sqrt(disc))

\* the side block, given the coefficients of the quadratic
CylinderSideQuadratic(cy, r, t_min, st, a, b, c) ==
    CylinderSideDisc(cy, r, t_min, st, a, b,
                     RSub(RMul(b, b), RMul(RMul(I(4), a), c)))

\* the side block, given ro, rd and a
CylinderSideFrom(cy, r, t_min, st, ro, rd, a) ==
    IF ~RGt(RAbs(a), CylEps) THEN st
    ELSE CylinderSideQuadratic(cy, r, t_min, st, a,
             RMul(I(2), RAdd(RMul(ro.x, rd.x), RMul(ro.z, rd.z))),
             RSub(RAdd(RMul(ro.x, ro.x), RMul(ro.z, ro.z)),
                  RMul(cy.radius, cy.radius)))

\* the side block, given ro = r.origin - self.center and rd = r.direction
CylinderSideLocal(cy, r, t_min, st, ro, rd) ==
    CylinderSideFrom(cy, r, t_min, st, ro, rd,
                     RAdd(RMul(rd.x, rd.x), RMul(rd.z, rd.z)))

\* the side intersection block, on the running (t_hit, hit_rec)
CylinderSide(cy, r, t_min, st) ==
    CylinderSideLocal(cy, r, t_min, st, VSub(r.origin, cy.center), r.direction)

\* the outward normal of a cap: up for the top cap, down for the bottom cap
CapOutward(y_cap) ==
    IF RGt(y_cap, Zero) THEN Vec3(Zero, One, Zero) ELSE Vec3(Zero, RNeg(One), Zero)

\* check_cap past its range test, given x and z at t
CheckCapDisk(y_cap, r, this, st, t, x, z) ==
    IF RLe(RAdd(RMul(x, x), RMul(z, z)),
           RAdd(RMul(this.radius, this.radius), CylTol))
    THEN [t_hit |-> t,
          hit_rec |-> Some(WithFaceNormal(r, RayAt(r, t), CapOutward(y_cap), t,
                                          this.albedo, this.reflectivity))]
    ELSE st

\* check_cap from its range test on, without the comparison against the
\* running t_hit
CheckCapAtAnyT(y_cap, r, ro, rd, this, t_min, st, t) ==
    IF RLt(t, t_min) THEN st
    ELSE CheckCapDisk(y_cap, r, this, st, t,
                      RAdd(ro.x, RMul(t, rd.x)), RAdd(ro.z, RMul(t, rd.z)))

\* check_cap from its range test on, given t
CheckCapAt(y_cap, r, ro, rd, this, t_min, st, t) ==
    IF RLt(t, t_min) \/ RGt(t, st.t_hit) THEN st
    ELSE CheckCapDisk(y_cap, r, this, st, t,
                      RAdd(ro.x, RMul(t, rd.x)), RAdd(ro.z, RMul(t, rd.z)))

\* check_cap without the comparison against the running t_hit
CheckCapAnyT(y_cap, r, this, t_min, st) ==
    IF RLt(RAbs(r.direction.y), CylEps) THEN st
    ELSE CheckCapAtAnyT(y_cap, r, VSub(r.origin, this.center), r.direction, this,
                        t_min, st,
                        RDiv(RSub(y_cap, RSub(r.origin.y, this.center.y)),
                             r.direction.y))

\* check_cap, given ro and rd
CheckCapLocal(y_cap, r, ro, rd, this, t_min, st) ==
    IF RLt(RAbs(rd.y), CylEps) THEN st
    ELSE CheckCapAt(y_cap, r, ro, rd, this, t_min, st, RDiv(RSub(y_cap, ro.y), rd.y))

\* the closure check_cap, on the running (t_hit, hit_rec)
CheckCap(y_cap, r, this, t_min, st) ==
    CheckCapLocal(y_cap, r, VSub(r.origin, this.center), r.direction, this, t_min, st)

CylinderHit(cy, r, t_min, t_max) ==
    CheckCap(RNeg(cy.half_height), r, cy, t_min,
             CheckCap(cy.half_height, r, cy, t_min,
                      CylinderSide(cy, r, t_min,
                                   [t_hit |-> t_max, hit_rec |-> None]))).hit_rec

(***************************************************************************)
(* hittable.rs: the Hittable trait and HittableList                        *)
(***************************************************************************)
\* obj.hit(r, t_min, t_max) through the trait object
PrimHit(obj, r, t_min, t_max) ==
    CASE obj.kind = "Sphere" -> SphereHit(obj, r, t_min, t_max)
      [] obj.kind = "Plane" -> PlaneHit(obj, r, t_min, t_max)
      [] obj.kind = "Cube" -> CubeHit(obj, r, t_min, t_max)
      [] obj.kind = "Cylinder" -> CylinderHit(obj, r, t_min, t_max)

\* the body of the loop over the objects, on the running
\* (closest_so_far, hit_any)
\* the update that keeps the record but does not narrow the bound
HitLoopUpdateNoNarrow(st, rec) ==
    IF IsSome(rec) THEN [closest_so_far |-> st.closest_so_far, hit_any |-> rec] ELSE st

\* the update that takes a record only if it is strictly nearer
HitLoopUpdateStrict(st, rec) ==
    IF IsSome(rec) /\ RLt(rec[1].t, st.closest_so_far)
    THEN [closest_so_far |-> rec[1].t, hit_any |-> rec]
    ELSE st

\* the running state st with a mark, which an assignment of t_hit and hit_rec
\* drops: a block handed a marked state returns it marked unless it assigned
Marked(st) == [t_hit |-> st.t_hit, hit_rec |-> st.hit_rec, mark |-> TRUE]

\* the block that returned st assigned t_hit and hit_rec
Assigned(st) == "mark" \notin DOMAIN st

\* the block whose record the cylinder returns, from what the top cap's and
\* then the bottom cap's check_cap returned: the last block that assigned,
\* the side block if neither cap did.  A cap at the running t_hit assigns
\* (t > *t_hit is false), so of two caps at one t the bottom one is last
CylinderWinner(top, bottom) ==
    IF Assigned(bottom) THEN "bottom" ELSE IF Assigned(top) THEN "top" ELSE "side"

\* the same, given what the top cap's check_cap returned
CylinderFamilyOfTop(cy, r, t_min, top) ==
    CylinderWinner(top, CheckCap(RNeg(cy.half_height), r, cy, t_min, Marked(top)))

CylinderFamily(cy, r, t_min, t_max) ==
    CylinderFamilyOfTop(cy, r, t_min,
        CheckCap(cy.half_height, r, cy, t_min,
                 Marked(CylinderSide(cy, r, t_min,
                                     [t_hit |-> t_max, hit_rec |-> None]))))

\* the outward normal of the block family at the record rec
CylinderOutwardOf(family, cy, r, rec) ==
    CASE family = "bottom" -> CapOutward(RNeg(cy.half_height))
      [] family = "top" -> CapOutward(cy.half_height)
      [] OTHER -> SideOutward(cy, VAdd(VSub(r.origin, cy.center),
                                       VMulS(r.direction, rec.t)))

\* the outward normal the cylinder hands to with_face_normal for the record rec
CylinderOutward(cy, r, t_min, t_max, rec) ==
    CylinderOutwardOf(CylinderFamily(cy, r, t_min, t_max), cy, r, rec)

\* the outward normal obj hands to with_face_normal for the record rec that
\* obj.hit(r, t_min, t_max) returns
PrimOutward(obj, r, t_min, t_max, rec) ==
    CASE obj.kind = "Sphere" -> VDivS(VSub(rec.p, obj.center), obj.radius)
      [] obj.kind = "Plane" -> obj.normal
      [] obj.kind = "Cube" -> AabbHit(obj.bounds, r, t_min, t_max)[1][2]
      [] obj.kind = "Cylinder" -> CylinderOutward(obj, r, t_min, t_max, rec)

\* if let Some(rec) = .. { closest_so_far = rec.t; hit_any = Some(rec); }
HitLoopUpdate(st, rec) ==
    IF IsSome(rec) THEN [closest_so_far |-> rec[1].t, hit_any |-> rec] ELSE st

HitLoopBody(obj, r, t_min, st) ==
    HitLoopUpdate(st, PrimHit(obj, r, t_min, st.closest_so_far))

RECURSIVE HitLoop(_, _, _, _, _)
HitLoop(objects, k, r, t_min, st) ==
    IF k > Len(objects) THEN st
    ELSE HitLoop(objects, k + 1, r, t_min, HitLoopBody(objects[k], r, t_min, st))

HittableListHit(objects, r, t_min, t_max) ==
    HitLoop(objects, 1, r, t_min,
            [closest_so_far |-> t_max, hit_any |-> None]).hit_any

(***************************************************************************)
(* main.rs: shade_lambert_with_shadow                                      *)
(***************************************************************************)
\* let ambient = 0.12
Ambient == F(12, 100)

\* const SHADOW_EPS: f64 = 1e-4
ShadowEps == Eps(4)

ToLightVec(p, lt) == VSub(lt.position, p)
LightDist(p, lt) == Length(ToLightVec(p, lt))
ToLightDir(p, lt) == VDivS(ToLightVec(p, lt), LightDist(p, lt))

ShadowRay(normal, p, lt) == Ray(VAdd(p, VMulS(normal, ShadowEps)), ToLightDir(p, lt))

\* the upper end of the shadow query, from infinity instead of the light
ShadowTMaxInfinity(p, lt) == Infinity

\* the upper end of the shadow query
ShadowTMax(p, lt) == RSub(LightDist(p, lt), ShadowEps)

InShadow(normal, p, lt, world) ==
    IsSome(HittableListHit(world, ShadowRay(normal, p, lt), ShadowEps,
                           ShadowTMax(p, lt)))

Diffuse(normal, p, lt, world) ==
    IF InShadow(normal, p, lt, world) THEN Zero
    ELSE RMax(Zero, Dot(normal, ToLightDir(p, lt)))

ShadeLambertWithShadow(hit_color, normal, p, lt, world) ==
    VMulV(VMulS(hit_color, RAdd(Ambient, Diffuse(normal, p, lt, world))),
          lt.intensity)

(***************************************************************************)
(* main.rs: ray_color                                                      *)
(***************************************************************************)
\* the lower end 0.001 of ray_color's scene query
TraceTMin == Eps(3)

\* const BIAS: f64 = 1e-4
Bias == Eps(4)

ZeroColor == Vec3(Zero, Zero, Zero)

\* the bounce limit test that lets depth 0 through
DepthExhaustedBelowZero(depth) == depth < 0

\* if depth <= 0
DepthExhausted(depth) == depth <= 0

\* world.hit(r, 0.001, f64::INFINITY)
WorldHit(world, r) == HittableListHit(world, r, TraceTMin, Infinity)

\* the depth of the recursive call, not lowered
ChildDepthSame(depth) == depth

\* depth - 1
ChildDepth(depth) == depth - 1

\* rec.reflectivity.clamp(0.0, 1.0)
Refl(rec) == RClamp(rec.reflectivity, Zero, One)

ReflectRay(r, rec) ==
    Ray(VAdd(rec.p, VMulS(rec.normal, Bias)),
        Unit(Reflect(Unit(r.direction), rec.normal)))

\* the blend with the two weights exchanged
BlendSwapped(local, reflected, refl) ==
    VAdd(VMulS(local, refl), VMulS(reflected, RSub(One, refl)))

\* local * (1.0 - refl) + reflected * refl
Blend(local, reflected, refl) ==
    VAdd(VMulS(local, RSub(One, refl)), VMulS(reflected, refl))

\* the gradient parameter 0.5 * (unit_dir.y + 1.0)
SkyT(r) == RMul(F(1, 2), RAdd(Unit(r.direction).y, One))

\* the gradient with the two colours exchanged
SkyBlendSwapped(t) ==
    VAdd(VMulS(Vec3(F(1, 2), F(7, 10), One), RSub(One, t)),
         VMulS(Vec3(One, One, One), t))

\* the gradient, given t
SkyBlend(t) ==
    VAdd(VMulS(Vec3(One, One, One), RSub(One, t)),
         VMulS(Vec3(F(1, 2), F(7, 10), One), t))

SkyColor(r) == SkyBlend(SkyT(r))

(***************************************************************************)
(* State                                                                   *)
(***************************************************************************)
VARIABLES
    objects,        \* world.objects, in insertion order
    light,          \* the PointLight
    hray,           \* HittableList::hit: r
    ht_min,         \* HittableList::hit: t_min
    ht_max,         \* HittableList::hit: t_max
    idx,            \* HittableList::hit: position of the loop over objects
    closest_so_far, \* HittableList::hit: closest_so_far
    hit_any,        \* HittableList::hit: hit_any
    call,           \* the loop's last obj.hit call: its object, bound, result
    hpc,            \* HittableList::hit: "loop", or "done" once it returned
    hresult,        \* HittableList::hit: the value returned
    ray0,           \* the camera ray handed to ray_color
    d0,             \* the depth handed to ray_color (max_depth)
    stack,          \* ray_color's activations, the innermost last
    ret,            \* the value the last finished activation returned
    queries,        \* the number of world.hit calls ray_color has made
    shade,          \* the last shade_lambert_with_shadow call and its result
    tpc,            \* "run", or "done" once the outermost ray_color returned
    tresult,        \* the colour the outermost ray_color returned
    width,          \* args.width
    height,         \* args.height
    samples_per_pixel, \* args.samples_per_pixel
    cam,            \* the Camera of the scene
    px_j,           \* main: the row j of the pixel being sampled
    px_i,           \* main: its column i
    px_s,           \* main: the samples taken for it so far
    pixel_color,    \* main: pixel_color, the sum of its samples
    uv,             \* main: the (u, v) last handed to cam.get_ray
    sample,         \* main: the colour ray_color returned for it
    out,            \* the lines written to the file so far
    rgb,            \* the three bytes of the pixel line written last
    rpc,            \* main: "header", "pixels", or "done"
    ctor            \* the arguments the world was built from

hvars == <<hray, ht_min, ht_max, idx, closest_so_far, hit_any, call, hpc, hresult>>
tvars == <<ray0, d0, stack, ret, queries, shade, tpc, tresult>>
rvars == <<width, height, samples_per_pixel, cam, px_j, px_i, px_s, pixel_color,
           uv, sample, out, rgb, rpc, ctor>>
vars == <<objects, light, hvars, tvars, rvars>>

\* main is not running
RenderIdle ==
    /\ width = 1
    /\ height = 1
    /\ samples_per_pixel = 1
    /\ cam = None
    /\ px_j = 0
    /\ px_i = 0
    /\ px_s = 0
    /\ pixel_color = ZeroColor
    /\ uv = None
    /\ sample = None
    /\ out = <<>>
    /\ rgb = None
    /\ rpc = "idle"
    /\ ctor = None

(***************************************************************************)
(* The bounded inputs                                                      *)
(***************************************************************************)
Red == Vec3(F(9, 10), F(1, 5), F(1, 5))
Grey == Vec3(F(1, 2), F(1, 2), F(1, 2))
Blue == Vec3(F(1, 4), F(1, 4), F(1, 2))
Green == Vec3(F(1, 5), F(7, 10), F(2, 5))
White == Vec3(One, One, One)

\* all of these but SphereB and Floor meet the ray from the origin toward -z
\* at t = 3/2
SphereA == SphereNew(Vec3(Zero, Zero, I(-2)), F(1, 2), Red, F(1, 10))
SphereB == SphereNew(Vec3(Zero, Zero, I(-3)), F(1, 2), White, One)
PlaneP == PlaneNew(Vec3(Zero, Zero, F(-3, 2)), Vec3(Zero, Zero, I(2)), Grey, F(1, 20))
Floor == PlaneNew(Vec3(Zero, F(-1, 2), Zero), Vec3(Zero, One, Zero), Grey, F(1, 20))
CubeC == CubeFromCenterSize(Vec3(Zero, Zero, I(-2)), One, Blue, Zero)
CylinderC == CylinderNew(Vec3(Zero, Zero, I(-2)), F(1, 2), F(2, 5), Green, F(1, 20))

Catalog == {SphereA, SphereB, PlaneP, Floor, CubeC, CylinderC}

\* the largest number of objects in a world
MaxObjects == 2

Worlds == UNION {[1..n -> Catalog] : n \in 0..MaxObjects}

HitRays ==
    { Ray(Vec3(Zero, Zero, Zero), Vec3(Zero, Zero, I(-1))),
      Ray(Vec3(Zero, Zero, Zero), Vec3(Zero, Zero, I(-2))),
      Ray(Vec3(Zero, Zero, I(-2)), Vec3(Zero, Zero, I(-1))),
      Ray(Vec3(Zero, Zero, I(-4)), Vec3(Zero, Zero, One)),
      Ray(Vec3(Zero, One, I(-2)), Vec3(Zero, I(-1), Zero)),
      Ray(Vec3(F(3, 10), Zero, Zero), Vec3(Zero, Zero, I(-1))),
      Ray(Vec3(F(1, 2), Zero, Zero), Vec3(Zero, Zero, I(-1))),
      Ray(Vec3(I(2), Zero, Zero), Vec3(Zero, Zero, I(-1))),
      Ray(Vec3(I(2), One, I(-2)), Vec3(Zero, I(-1), I(-1))),
      Ray(Vec3(Zero, I(2), Zero), Vec3(One, Zero, I(-1))),
      Ray(Vec3(I(-1), Zero, Zero), Vec3(One, I(-1), Zero)),
      Ray(Vec3(Zero, F(-1, 2), F(-3, 2)), Vec3(One, Zero, Zero)),
      Ray(Vec3(I(-2), F(2, 5), I(-2)), Vec3(One, Zero, Zero)) }

\* the pairs (t_min, t_max); 0.001 and infinity are ray_color's
HitIntervals ==
    { <<F(1, 1000), Infinity>>,
      <<Zero, F(3, 2) >>,
      <<F(3, 2), F(5, 2) >>,
      <<F(1, 2), One>> }

DefaultLight == [position |-> Vec3(I(5), I(5), I(-2)), intensity |-> White]

(***************************************************************************)
(* HittableList::hit, one loop iteration per step                          *)
(***************************************************************************)
HitInit ==
    /\ RenderIdle
    /\ objects \in Worlds
    /\ light = DefaultLight
    /\ hray \in HitRays
    /\ \E iv \in HitIntervals : ht_min = iv[1] /\ ht_max = iv[2]
    /\ idx = 1
    /\ closest_so_far = ht_max
    /\ hit_any = None
    /\ call = None
    /\ hpc = "loop"
    /\ hresult = None
    /\ ray0 = hray
    /\ d0 = 0
    /\ stack = <<>>
    /\ ret = None
    /\ queries = 0
    /\ shade = None
    /\ tpc = "idle"
    /\ tresult = None

\* for obj in &self.objects { if let Some(rec) = obj.hit(..) { .. } }
HitStep ==
    /\ hpc = "loop"
    /\ idx <= Len(objects)
    /\ \E rec \in {PrimHit(objects[idx], hray, ht_min, closest_so_far)} :
           /\ \E st \in {HitLoopUpdate([closest_so_far |-> closest_so_far,
                                        hit_any |-> hit_any], rec)} :
                  /\ closest_so_far' = st.closest_so_far
                  /\ hit_any' = st.hit_any
           /\ call' = Some([k |-> idx, t_max |-> closest_so_far, res |-> rec])
    /\ idx' = idx + 1
    /\ UNCHANGED <<rvars, objects, light, hray, ht_min, ht_max, hpc, hresult, tvars>>

\* hit_any
HitReturn ==
    /\ hpc = "loop"
    /\ idx > Len(objects)
    /\ hpc' = "done"
    /\ hresult' = hit_any
    /\ UNCHANGED <<rvars, objects, light, hray, ht_min, ht_max, idx, closest_so_far,
                   hit_any, call, tvars>>

HitNext == HitStep \/ HitReturn

HitSpec == HitInit /\ [][HitNext]_vars

(***************************************************************************)
(* One primitive, built from its constructor's arguments, and one query    *)
(***************************************************************************)
\* the constructor calls of build_scene's Custom arm on a tuple c of
\* add_planes, add_spheres, add_cubes or add_cylinders
Build(c) ==
    CASE c.kind = "Sphere" ->
             SphereNew(c.center, c.radius, c.albedo, c.reflectivity)
      [] c.kind = "Plane" ->
             PlaneNew(c.point, Unit(c.normal), c.albedo, c.reflectivity)
      [] c.kind = "Cube" ->
             CubeFromCenterSize(c.center, c.size, c.albedo, c.reflectivity)
      [] c.kind = "Cylinder" ->
             CylinderNew(c.center, c.radius, c.half_height, c.albedo, c.reflectivity)

\* tuples as parse_args pushes them, which takes radius, size and half
\* height as parsed and clamps albedo and reflectivity to [0, 1]: a sphere in
\* front of the origin, one around (0, 0, -2) and one of radius 0.0 at
\* (0, 0, -2); planes of a zero normal, of a normal of length 5 and of
\* length 2; a cube and a cylinder around (0, 0, -2)
PrimArgs ==
    { [kind |-> "Sphere", center |-> Vec3(Zero, Zero, I(-1)), radius |-> F(1, 2),
       albedo |-> Red, reflectivity |-> F(1, 10)],
      [kind |-> "Sphere", center |-> Vec3(Zero, Zero, I(-2)), radius |-> F(1, 2),
       albedo |-> White, reflectivity |-> One],
      [kind |-> "Sphere", center |-> Vec3(Zero, Zero, I(-2)), radius |-> Zero,
       albedo |-> Red, reflectivity |-> F(1, 10)],
      [kind |-> "Plane", point |-> Vec3(Zero, F(-1, 2), Zero),
       normal |-> Vec3(Zero, Zero, Zero), albedo |-> Grey, reflectivity |-> Zero],
      [kind |-> "Plane", point |-> Vec3(Zero, F(-1, 2), F(-3, 2)),
       normal |-> Vec3(Zero, I(3), I(4)), albedo |-> Grey, reflectivity |-> F(1, 20)],
      [kind |-> "Plane", point |-> Vec3(Zero, Zero, F(-3, 2)),
       normal |-> Vec3(Zero, Zero, I(2)), albedo |-> Blue, reflectivity |-> F(1, 4)],
      [kind |-> "Cube", center |-> Vec3(Zero, Zero, I(-2)), size |-> One,
       albedo |-> Blue, reflectivity |-> F(1, 2)],
      [kind |-> "Cylinder", center |-> Vec3(Zero, Zero, I(-2)), radius |-> F(1, 2),
       half_height |-> F(2, 5), albedo |-> Green, reflectivity |-> F(1, 20)] }

\* rays in the plane z = -2 that cross the cylinder through a cap and the
\* side, and rays that start inside the primitives around (0, 0, -2)
PrimRays ==
    HitRays \cup
    { Ray(Vec3(Zero, F(7, 10), I(-2)), Vec3(One, I(-1), Zero)),
      Ray(Vec3(Zero, F(9, 10), I(-2)), Vec3(One, I(-1), Zero)),
      Ray(Vec3(I(-1), F(1, 5), I(-2)), Vec3(One, F(-2, 5), Zero)),
      Ray(Vec3(Zero, F(-7, 10), I(-2)), Vec3(One, One, Zero)),
      Ray(Vec3(F(1, 4), Zero, I(-2)), Vec3(One, Zero, Zero)),
      Ray(Vec3(Zero, Zero, I(-2)), Vec3(Zero, One, Zero)) }

PrimInit ==
    /\ width = 1
    /\ height = 1
    /\ samples_per_pixel = 1
    /\ cam = None
    /\ px_j = 0
    /\ px_i = 0
    /\ px_s = 0
    /\ pixel_color = ZeroColor
    /\ uv = None
    /\ sample = None
    /\ out = <<>>
    /\ rgb = None
    /\ rpc = "idle"
    /\ ctor \in PrimArgs
    /\ objects = <<Build(ctor)>>
    /\ light = DefaultLight
    /\ hray \in PrimRays
    /\ \E iv \in HitIntervals : ht_min = iv[1] /\ ht_max = iv[2]
    /\ idx = 1
    /\ closest_so_far = ht_max
    /\ hit_any = None
    /\ call = None
    /\ hpc = "loop"
    /\ hresult = None
    /\ ray0 = hray
    /\ d0 = 0
    /\ stack = <<>>
    /\ ret = None
    /\ queries = 0
    /\ shade = None
    /\ tpc = "idle"
    /\ tresult = None

PrimSpec == PrimInit /\ [][HitNext]_vars

(***************************************************************************)
(* The world build_scene's Custom arm builds, which parse_args selects     *)
(* whenever an object is added, and one query                              *)
(***************************************************************************)
\* one for loop over a list of tuples: world.add(Box::new(<constructor>(..)))
BuildAll(cs) == [k \in 1..Len(cs) |-> Build(cs[k])]

\* the floor build_scene adds when no plane was given, as the arguments of
\* its Plane::new call
DefaultFloorArgs ==
    [kind |-> "Plane", point |-> Vec3(Zero, F(-1, 2), Zero),
     normal |-> Vec3(Zero, One, Zero),
     albedo |-> Vec3(F(41, 50), F(41, 50), F(41, 50)), reflectivity |-> F(1, 20)]

\* Plane::new on them, without the unit() of the for loop
DefaultFloor ==
    PlaneNew(DefaultFloorArgs.point, DefaultFloorArgs.normal, DefaultFloorArgs.albedo,
             DefaultFloorArgs.reflectivity)

\* the tuples in the order of the four for loops: planes, spheres, cubes,
\* cylinders
CustomAdds(args) ==
    args.add_planes \o args.add_spheres \o args.add_cubes \o args.add_cylinders

\* the world of the Custom arm: the four loops' pushes, and the default
\* floor if args.add_planes.is_empty()
CustomWorld(args) ==
    BuildAll(CustomAdds(args))
        \o (IF args.add_planes = <<>> THEN <<DefaultFloor>> ELSE <<>>)

\* the arguments of the constructor calls behind the objects of
\* CustomWorld(args), in the order of the world
CustomCalls(args) ==
    CustomAdds(args)
        \o (IF args.add_planes = <<>> THEN <<DefaultFloorArgs>> ELSE <<>>)

\* the lists of up to MaxObjects tuples of one kind
AddsOf(kind) ==
    UNION {[1..n -> {c \in PrimArgs : c.kind = kind}] : n \in 0..MaxObjects}

\* the object lists of Args with one to MaxObjects objects added
SceneArgs ==
    { a \in [add_planes : AddsOf("Plane"), add_spheres : AddsOf("Sphere"),
             add_cubes : AddsOf("Cube"), add_cylinders : AddsOf("Cylinder")] :
          Len(CustomAdds(a)) \in 1..MaxObjects }

SceneInit ==
    /\ width = 1
    /\ height = 1
    /\ samples_per_pixel = 1
    /\ cam = None
    /\ px_j = 0
    /\ px_i = 0
    /\ px_s = 0
    /\ pixel_color = ZeroColor
    /\ uv = None
    /\ sample = None
    /\ out = <<>>
    /\ rgb = None
    /\ rpc = "idle"
    /\ ctor \in SceneArgs
    /\ objects = CustomWorld(ctor)
    /\ light = DefaultLight
    /\ hray \in PrimRays
    /\ \E iv \in HitIntervals : ht_min = iv[1] /\ ht_max = iv[2]
    /\ idx = 1
    /\ closest_so_far = ht_max
    /\ hit_any = None
    /\ call = None
    /\ hpc = "loop"
    /\ hresult = None
    /\ ray0 = hray
    /\ d0 = 0
    /\ stack = <<>>
    /\ ret = None
    /\ queries = 0
    /\ shade = None
    /\ tpc = "idle"
    /\ tresult = None

SceneSpec == SceneInit /\ [][HitNext]_vars

(***************************************************************************)
(* ray_color, one step of an activation per action.  A frame is an         *)
(* activation: its ray and depth, its position (pc), and what it has       *)
(* computed so far: the record of world.hit, the local colour, the clamped *)
(* reflectivity.                                                           *)
(***************************************************************************)
\* the scenes of the trace lie on the y axis
\* a mirror slab whose top is at the floor's height, the floor, and a mirror
\* slab above the camera rays' origin, its underside at y = 2
MirrorSlab == CubeFromCenterSize(Vec3(Zero, I(-1), Zero), One, Grey, One)
MatteFloor == PlaneNew(Vec3(Zero, F(-1, 2), Zero), Vec3(Zero, One, Zero), Grey, Zero)
MirrorLid == CubeFromCenterSize(Vec3(Zero, F(5, 2), Zero), One, White, One)
Ball == SphereNew(Vec3(Zero, F(3, 4), Zero), F(1, 4), Red, F(1, 4))
Box == CubeFromCenterSize(Vec3(Zero, F(3, 4), Zero), F(1, 2), Blue, Zero)
Can == CylinderNew(Vec3(Zero, F(3, 4), Zero), F(1, 2), F(1, 4), Green, F(1, 2))

\* a plane through HighLight, over every ray of CameraRays: the world
\* build_scene makes of --add-plane=0,6,0;0,-1,0;1,1,1;0
Canopy == PlaneNew(Vec3(Zero, I(6), Zero), Vec3(Zero, I(-1), Zero), White, Zero)

SceneCatalog == {MirrorSlab, MatteFloor, MirrorLid, Ball, Box, Can}

\* the largest number of objects in a traced scene
MaxSceneObjects == 2

\* the lists of up to MaxSceneObjects different objects of the catalog, and
\* the canopy alone
Scenes ==
    UNION {{w \in [1..n -> SceneCatalog] : \A i, j \in 1..n : w[i] = w[j] => i = j} :
               n \in 0..MaxSceneObjects}
        \cup {<<Canopy>>}

LowLight == [position |-> Vec3(Zero, F(7, 4), Zero), intensity |-> White]
HighLight == [position |-> Vec3(Zero, I(6), Zero),
              intensity |-> Vec3(One, F(1, 2), F(1, 2))]

Lights == {LowLight, HighLight}

CameraRays ==
    { Ray(Vec3(Zero, F(3, 2), Zero), Vec3(Zero, I(-1), Zero)),
      Ray(Vec3(Zero, F(3, 2), Zero), Vec3(Zero, I(-2), Zero)),
      Ray(Vec3(Zero, F(3, 2), Zero), Vec3(Zero, One, Zero)),
      Ray(Vec3(Zero, F(3, 2), Zero), Vec3(One, Zero, Zero)) }

\* the largest depth handed to ray_color; main hands it max_depth = 5
MaxDepth == 5

Frame(r, depth) ==
    [r |-> r, depth |-> depth, pc |-> "enter", rec |-> None,
     local |-> ZeroColor, refl |-> Zero]

TraceInit ==
    /\ RenderIdle
    /\ objects \in Scenes
    /\ light = HighLight
    /\ ray0 \in CameraRays
    /\ d0 \in {-1} \cup (0..MaxDepth)
    /\ stack = <<Frame(ray0, d0)>>
    /\ ret = None
    /\ queries = 0
    /\ shade = None
    /\ tpc = "run"
    /\ tresult = None
    /\ hray = ray0
    /\ ht_min = TraceTMin
    /\ ht_max = Infinity
    /\ idx = 1
    /\ closest_so_far = Infinity
    /\ hit_any = None
    /\ call = None
    /\ hpc = "idle"
    /\ hresult = None

Top == stack[Len(stack)]

\* the innermost activation moves on to the frame f
Step(f) == stack' = [stack EXCEPT ![Len(stack)] = f]

\* the innermost activation returns value: its caller goes on, or the trace
\* is done
Return(value, kind, reflected) ==
    /\ ret' = Some([value |-> value, kind |-> kind, frame |-> Top,
                    reflected |-> reflected])
    /\ stack' = SubSeq(stack, 1, Len(stack) - 1)
    /\ IF Len(stack) = 1
       THEN tpc' = "done" /\ tresult' = Some(value)
       ELSE UNCHANGED <<tpc, tresult>>

\* the call shade_lambert_with_shadow(rec.albedo, rec.normal, rec.p, light,
\* world) and the colour it returned
ShadeOf(rec) ==
    Some([hit_color |-> rec.albedo, normal |-> rec.normal, p |-> rec.p,
          color |-> ShadeLambertWithShadow(rec.albedo, rec.normal, rec.p,
                                           light, objects)])

\* if depth <= 0 { return Color::new(0.0, 0.0, 0.0); }
RayColorDepth ==
    /\ tpc = "run"
    /\ Top.pc = "enter"
    /\ DepthExhausted(Top.depth)
    /\ Return(ZeroColor, "depth", None)
    /\ UNCHANGED <<rvars, objects, light, hvars, ray0, d0, queries, shade>>

\* world.hit(r, 0.001, f64::INFINITY)
RayColorQuery ==
    /\ tpc = "run"
    /\ Top.pc = "enter"
    /\ ~DepthExhausted(Top.depth)
    /\ queries' = queries + 1
    /\ Step([Top EXCEPT !.pc = "hit", !.rec = WorldHit(objects, Top.r)])
    /\ UNCHANGED <<rvars, objects, light, hvars, ray0, d0, ret, shade, tpc, tresult>>

\* world.hit is None: the sky gradient
RayColorSky ==
    /\ tpc = "run"
    /\ Top.pc = "hit"
    /\ Top.rec = None
    /\ Return(SkyColor(Top.r), "sky", None)
    /\ UNCHANGED <<rvars, objects, light, hvars, ray0, d0, queries, shade>>

\* let local = shade_lambert_with_shadow(..);
\* let refl = rec.reflectivity.clamp(0.0, 1.0);
RayColorShade ==
    /\ tpc = "run"
    /\ Top.pc = "hit"
    /\ Top.rec # None
    /\ shade' = ShadeOf(Top.rec[1])
    /\ Step([Top EXCEPT !.pc = "shaded", !.local = shade'[1].color,
                        !.refl = Refl(Top.rec[1])])
    /\ UNCHANGED <<rvars, objects, light, hvars, ray0, d0, ret, queries, tpc, tresult>>

\* refl > 0.0 is false: return local
RayColorLocal ==
    /\ tpc = "run"
    /\ Top.pc = "shaded"
    /\ ~RGt(Top.refl, Zero)
    /\ Return(Top.local, "local", None)
    /\ UNCHANGED <<rvars, objects, light, hvars, ray0, d0, queries, shade>>

\* refl > 0.0: ray_color(&reflect_ray, world, light, depth - 1)
RayColorReflect ==
    /\ tpc = "run"
    /\ Top.pc = "shaded"
    /\ RGt(Top.refl, Zero)
    /\ stack' = Append([stack EXCEPT ![Len(stack)] = [Top EXCEPT !.pc = "reflect"]],
                       Frame(ReflectRay(Top.r, Top.rec[1]), ChildDepth(Top.depth)))
    /\ ret' = None
    /\ UNCHANGED <<rvars, objects, light, hvars, ray0, d0, queries, shade, tpc, tresult>>

\* return local * (1.0 - refl) + reflected * refl
RayColorBlend ==
    /\ tpc = "run"
    /\ Top.pc = "reflect"
    /\ ret # None
    /\ Return(Blend(Top.local, ret[1].value, Top.refl), "blend", Some(ret[1].value))
    /\ UNCHANGED <<rvars, objects, light, hvars, ray0, d0, queries, shade>>

Next ==
    \/ RayColorDepth
    \/ RayColorQuery
    \/ RayColorSky
    \/ RayColorShade
    \/ RayColorLocal
    \/ RayColorReflect
    \/ RayColorBlend

Spec == TraceInit /\ [][Next]_vars

\* ray_color runs to its return: no step of it is put off for ever.  This is
\* weak fairness of Next, with ENABLED <<Next>>_vars written as what it
\* amounts to here, tpc = "run": an activation in progress always has a step
FairSpec == Spec /\ ([]<>(tpc # "run") \/ []<><<Next>>_vars)

(***************************************************************************)
(* shade_lambert_with_shadow on the record of a camera ray's hit: the      *)
(* query and the shading of one activation of ray_color                    *)
(***************************************************************************)
\* a light in the plane of the floors
GrazingLight == [position |-> Vec3(I(2), F(-1, 2), Zero), intensity |-> White]

ShadeCatalog == {MatteFloor, MirrorSlab, MirrorLid, Canopy, Ball, Box, Can}

ShadeWorlds == UNION {[1..n -> ShadeCatalog] : n \in 0..MaxSceneObjects}

\* the rays that look down
ShadeRays == {r \in CameraRays : RLt(r.direction.y, Zero)}

\* the light off the axis goes with the flat primitives
ShadeLights(world) ==
    IF \A k \in 1..Len(world) : world[k].kind \in {"Plane", "Cube"}
    THEN Lights \cup {GrazingLight}
    ELSE Lights

ShadeInit ==
    /\ RenderIdle
    /\ objects \in ShadeWorlds
    /\ light \in ShadeLights(objects)
    /\ ray0 \in ShadeRays
    /\ d0 = MaxDepth
    /\ stack = <<Frame(ray0, d0)>>
    /\ ret = None
    /\ queries = 0
    /\ shade = None
    /\ tpc = "run"
    /\ tresult = None
    /\ hray = ray0
    /\ ht_min = TraceTMin
    /\ ht_max = Infinity
    /\ idx = 1
    /\ closest_so_far = Infinity
    /\ hit_any = None
    /\ call = None
    /\ hpc = "idle"
    /\ hresult = None

ShadeNext == RayColorQuery \/ RayColorShade

ShadeSpec == ShadeInit /\ [][ShadeNext]_vars

(***************************************************************************)
(* camera.rs                                                               *)
(***************************************************************************)
\* the axis after i, in the order x, y, z, x
After(i) == IF i = "x" THEN "y" ELSE IF i = "y" THEN "z" ELSE "x"

\* on each axis i, with j after i and k after j: a.j * b.k - a.k * b.j
Cross(a, b) ==
    Vec3Of([i \in Axes |-> RSub(RMul(a[After(i)], b[After(After(i))]),
                                RMul(a[After(After(i))], b[After(i)]))])

\* (vfov_deg.to_radians() / 2.0).tan() for a field of view of 45, 60, 75, 90
\* or 120 degrees: the f64 the tangent function returns for the f64
\* vfov_deg * (PI / 180) / 2, as mantissa and exponent.  75 and 90 are the
\* angles of build_scene's cameras; for 90 the argument is the f64 nearest to
\* pi / 4 and the tangent is the f64 below 1
TanHalf(vfov_deg) ==
    CASE vfov_deg = 45 -> <<1, -54, <<12082, 10227, 10137, 1696>>>>
      [] vfov_deg = 60 -> <<1, -53, <<13084, 5696, 6772, 1182>>>>
      [] vfov_deg = 75 -> <<1, -53, <<9846, 3930, 7957, 1571>>>>
      [] vfov_deg = 90 -> BelowOne
      [] vfov_deg = 120 -> <<1, -52, <<3240, 8545, 10158, 1773>>>>

\* Camera::new from lower_left_corner on
CameraOfSpans(origin, w, horizontal, vertical) ==
    [origin |-> origin,
     lower_left_corner |->
         VSub(VSub(VSub(origin, VDivS(horizontal, I(2))), VDivS(vertical, I(2))), w),
     horizontal |-> horizontal,
     vertical |-> vertical]

\* Camera::new, given the basis vectors w and u
CameraOfBasis(lookfrom, viewport_width, viewport_height, w, u) ==
    CameraOfSpans(lookfrom, w, VMulS(u, viewport_width),
                  VMulS(Cross(w, u), viewport_height))

\* Camera::new, given w
CameraOfAxis(lookfrom, vup, viewport_width, viewport_height, w) ==
    CameraOfBasis(lookfrom, viewport_width, viewport_height, w, Unit(Cross(vup, w)))

\* Camera::new, given viewport_height
CameraOfHeight(lookfrom, lookat, vup, aspect_ratio, viewport_height) ==
    CameraOfAxis(lookfrom, vup, RMul(aspect_ratio, viewport_height), viewport_height,
                 Unit(VSub(lookfrom, lookat)))

CameraNew(lookfrom, lookat, vup, vfov_deg, aspect_ratio) ==
    CameraOfHeight(lookfrom, lookat, vup, aspect_ratio,
                   RMul(I(2), TanHalf(vfov_deg)))

GetRay(c, s, t) ==
    Ray(c.origin,
        VSub(VAdd(VAdd(c.lower_left_corner, VMulS(c.horizontal, s)),
                  VMulS(c.vertical, t)),
             c.origin))

(***************************************************************************)
(* main.rs: ray_color as a function, write_color, the arguments            *)
(***************************************************************************)
RECURSIVE RayColor(_, _, _, _)
\* ray_color from the reflection test on, given local and refl
RayColorShaded(r, world, lt, depth, rec, local, refl) ==
    IF RGt(refl, Zero)
    THEN Blend(local,
               RayColor(ReflectRay(r, rec), world, lt, ChildDepth(depth)),
               refl)
    ELSE local

\* ray_color from the if-let on, given the outcome hit of world.hit
RayColorHit(r, world, lt, depth, hit) ==
    IF IsSome(hit)
    THEN RayColorShaded(r, world, lt, depth, hit[1],
                        ShadeLambertWithShadow(hit[1].albedo, hit[1].normal,
                                               hit[1].p, lt, world),
                        Refl(hit[1]))
    ELSE SkyColor(r)

RayColor(r, world, lt, depth) ==
    IF DepthExhausted(depth) THEN ZeroColor
    ELSE RayColorHit(r, world, lt, depth, WorldHit(world, r))

\* c as i32: towards zero, 0 for NaN, and i32::MAX = 2^31 - 1 and
\* i32::MIN = -2^31 for what lies beyond them
AsI32(c) ==
    IF c = NaN THEN 0
    ELSE IF RGe(c, I(2147483647)) THEN 2147483647
    ELSE IF RLe(c, RSub(I(-2147483647), One)) THEN -2147483647 - 1
    ELSE Trunc(c)

\* to_byte without the clamp
ToByteNoClamp(c) == AsI32(RMul(c, I(256)))

\* let to_byte = |c: f64| (c.clamp(0.0, 0.999) * 256.0) as i32
ToByte(c) == AsI32(RMul(RClamp(c, Zero, F(999, 1000)), I(256)))

\* one channel of write_color: scaled by 1 / samples_per_pixel, gamma 2.0,
\* to_byte
ChannelByte(c, spp) == ToByte(Sqrt(RMul(c, RDiv(One, I(spp)))))

\* the three numbers of the line write_color writes
WriteColor(color, spp) ==
    <<ChannelByte(color.x, spp), ChannelByte(color.y, spp), ChannelByte(color.z, spp)>>

IMax(a, b) == IF a < b THEN b ELSE a

\* parse_resolution on the two integers of "<w>x<h>"
ParseResolution(w, h) == <<IMax(w, 1), IMax(h, 1)>>

\* --spp=<v>: spp = v.max(1)
ParseSpp(v) == IMax(v, 1)

\* (i as f64 + math::random_f64()) / (args.width - 1) as f64, and the same
\* for j and args.height
PixelCoord(k, random, n) == RDiv(RAdd(I(k), random), I(n - 1))

(***************************************************************************)
(* light.rs, and main.rs: build_scene, the Custom arm                      *)
(***************************************************************************)
PointLightNew(position, intensity) ==
    [position |-> position, intensity |-> intensity]

\* Option::unwrap_or
UnwrapOr(o, default) == IF IsSome(o) THEN o[1] ELSE default

\* the closure light_from: the scene's light unless overridden
LightFrom(args, default_pos, default_int) ==
    PointLightNew(UnwrapOr(args.light_pos, default_pos),
                  UnwrapOr(args.light_int, default_int))

\* the closure cam_from: the scene's camera unless overridden, with vup
\* (0, 1, 0) unless overridden
CamFrom(args, aspect_ratio, default_lookfrom, default_lookat, default_fov) ==
    CameraNew(UnwrapOr(args.cam.lookfrom, default_lookfrom),
              UnwrapOr(args.cam.lookat, default_lookat),
              UnwrapOr(args.cam.vup, Vec3(Zero, One, Zero)),
              UnwrapOr(args.cam.fov, default_fov),
              aspect_ratio)

\* build_scene on the Args of a Custom scene, of width w and height h: the
\* aspect ratio is args.width as f64 / args.height as f64
BuildScene(args, w, h) ==
    [world |-> CustomWorld(args),
     light |-> LightFrom(args, Vec3(I(5), I(5), I(-2)), Vec3(One, One, One)),
     cam |-> CamFrom(args, RDiv(I(w), I(h)), Vec3(Zero, F(1, 2), One),
                     Vec3(Zero, Zero, I(-1)), 75)]

(***************************************************************************)
(* main.rs: main, from the header on.  One action per iteration of the     *)
(* sample loop, one per pixel written.                                     *)
(***************************************************************************)
\* the largest --res and --spp arguments
MaxWidth == 3
MaxHeight == 3
MaxSamples == 2

\* the values two successive calls of math::random_f64() return, in [0, 1)
Randoms == {<<Zero, Zero>>, <<F(1, 2), F(1, 2)>>}

\* Args without an object, a camera override or a light override
NoArgs ==
    [add_planes |-> <<>>, add_spheres |-> <<>>, add_cubes |-> <<>>,
     add_cylinders |-> <<>>,
     cam |-> [lookfrom |-> None, lookat |-> None, vup |-> None, fov |-> None],
     light_pos |-> None, light_int |-> None]

\* --add-plane=0,6,0;0,-1,0;1,1,1;0 --lookfrom=0,1,0 --lookat=0,0,0
\* --vup=0,0,-1 --fov=90 --light-pos=0,6,0 --light-int=1,0.5,0.5: a camera
\* above the origin that looks straight down, and over it a plane through
\* the light
DownArgs ==
    [NoArgs EXCEPT
        !.add_planes = <<[kind |-> "Plane", point |-> Vec3(Zero, I(6), Zero),
                          normal |-> Vec3(Zero, I(-1), Zero), albedo |-> White,
                          reflectivity |-> Zero]>>,
        !.cam = [lookfrom |-> Some(Vec3(Zero, One, Zero)),
                 lookat |-> Some(Vec3(Zero, Zero, Zero)),
                 vup |-> Some(Vec3(Zero, Zero, I(-1))),
                 fov |-> Some(90)],
        !.light_pos = Some(HighLight.position),
        !.light_int = Some(HighLight.intensity)]

\* --add-plane=0,-0.5,0;0,1,0;0.5,0.5,0.5;0: a matte floor under the default
\* light and before the default camera
FloorArgs ==
    [NoArgs EXCEPT
        !.add_planes = <<[kind |-> "Plane", point |-> Vec3(Zero, F(-1, 2), Zero),
                          normal |-> Vec3(Zero, One, Zero), albedo |-> Grey,
                          reflectivity |-> Zero]>>]

RenderArgs == {DownArgs, FloorArgs}

RenderInit ==
    /\ \E w \in 0..MaxWidth, h \in 0..MaxHeight :
           /\ width = ParseResolution(w, h)[1]
           /\ height = ParseResolution(w, h)[2]
    /\ \E v \in 0..MaxSamples : samples_per_pixel = ParseSpp(v)
    /\ ctor \in RenderArgs
    /\ \E scene \in {BuildScene(ctor, width, height)} :
           /\ objects = scene.world
           /\ light = scene.light
           /\ cam = scene.cam
    /\ px_j = 0
    /\ px_i = 0
    /\ px_s = 0
    /\ pixel_color = ZeroColor
    /\ uv = None
    /\ sample = None
    /\ out = <<>>
    /\ rgb = None
    /\ rpc = "header"
    /\ hray = Ray(ZeroColor, ZeroColor)
    /\ ht_min = TraceTMin
    /\ ht_max = Infinity
    /\ idx = 1
    /\ closest_so_far = Infinity
    /\ hit_any = None
    /\ call = None
    /\ hpc = "idle"
    /\ hresult = None
    /\ ray0 = hray
    /\ d0 = MaxDepth
    /\ stack = <<>>
    /\ ret = None
    /\ queries = 0
    /\ shade = None
    /\ tpc = "idle"
    /\ tresult = None

\* writeln "P3", "<width> <height>", "255"; the loops start at the top row
RenderHeader ==
    /\ rpc = "header"
    /\ out' = <<[text |-> <<"P3">>], [text |-> <<width, height>>], [text |-> <<255>>]>>
    /\ px_j' = height - 1
    /\ px_i' = 0
    /\ px_s' = 0
    /\ pixel_color' = ZeroColor
    /\ rpc' = "pixels"
    /\ UNCHANGED <<objects, light, hvars, tvars, ctor, width, height, samples_per_pixel,
                   cam, uv, sample, rgb>>

\* one iteration of for _s in 0..args.samples_per_pixel
RenderSample ==
    /\ rpc = "pixels"
    /\ px_s < samples_per_pixel
    /\ \E rnd \in Randoms :
           uv' = Some(<<PixelCoord(px_i, rnd[1], width),
                        PixelCoord(px_j, rnd[2], height)>>)
    /\ sample' = Some(RayColor(GetRay(cam, uv'[1][1], uv'[1][2]), objects, light,
                               MaxDepth))
    /\ pixel_color' = VAdd(pixel_color, sample'[1])
    /\ px_s' = px_s + 1
    /\ UNCHANGED <<objects, light, hvars, tvars, ctor, width, height, samples_per_pixel,
                   cam, px_j, px_i, out, rgb, rpc>>

\* the loops in the other order: down the column, then on to the next column
NextPixelColumnMajor(i, j, w) ==
    IF j > 0 THEN Some(<<i, j - 1>>)
    ELSE IF i + 1 < w THEN Some(<<i + 1, height - 1>>)
    ELSE None

\* the pixel the loops visit after (i, j): the next of the row, else the
\* first of the row below, else none
NextPixel(i, j, w) ==
    IF i + 1 < w THEN Some(<<i + 1, j>>)
    ELSE IF j > 0 THEN Some(<<0, j - 1>>)
    ELSE None

\* write_color(&mut w, pixel_color, args.samples_per_pixel), and on to the
\* next pixel of the row, the next row down, or the end
RenderWrite ==
    /\ rpc = "pixels"
    /\ px_s = samples_per_pixel
    /\ rgb' = WriteColor(pixel_color, samples_per_pixel)
    /\ out' = Append(out, [i |-> px_i, j |-> px_j, samples |-> px_s])
    /\ IF NextPixel(px_i, px_j, width) = None
       THEN rpc' = "done" /\ UNCHANGED <<px_i, px_j, px_s, pixel_color>>
       ELSE /\ px_i' = NextPixel(px_i, px_j, width)[1][1]
            /\ px_j' = NextPixel(px_i, px_j, width)[1][2]
            /\ px_s' = 0
            /\ pixel_color' = ZeroColor
            /\ UNCHANGED rpc
    /\ UNCHANGED <<objects, light, hvars, tvars, ctor, width, height, samples_per_pixel,
                   cam, uv, sample>>

RenderNext == RenderHeader \/ RenderSample \/ RenderWrite

RenderSpec == RenderInit /\ [][RenderNext]_vars

(***************************************************************************)
(* write_color on its own: the last pixel of a render, its samples taken,  *)
(* for a range of accumulated sums                                         *)
(***************************************************************************)
\* accumulated channel sums: 0, squares of multiples of 1/256 around the
\* ends of a byte, sums below, at and above the clamp, and other fractions
ChannelSums ==
    { Zero, F(1, 65536), F(1, 16), F(1, 5), F(1, 4), F(1, 3), F(1, 2), F(3, 4),
      F(65025, 65536), F(998001, 1000000), One, F(3, 2), I(2), I(4), I(9) }

ColorInit ==
    /\ width = 1
    /\ height = 1
    /\ \E v \in 0..MaxSamples : samples_per_pixel = ParseSpp(v)
    /\ ctor = DownArgs
    /\ \E scene \in {BuildScene(ctor, width, height)} :
           /\ objects = scene.world
           /\ light = scene.light
           /\ cam = scene.cam
    /\ px_j = 0
    /\ px_i = 0
    /\ px_s = samples_per_pixel
    /\ \E x \in ChannelSums, y \in ChannelSums, z \in ChannelSums :
           pixel_color = Vec3(x, y, z)
    /\ uv = None
    /\ sample = None
    /\ out = <<[text |-> <<"P3">>], [text |-> <<width, height>>], [text |-> <<255>>]>>
    /\ rgb = None
    /\ rpc = "pixels"
    /\ hray = Ray(ZeroColor, ZeroColor)
    /\ ht_min = TraceTMin
    /\ ht_max = Infinity
    /\ idx = 1
    /\ closest_so_far = Infinity
    /\ hit_any = None
    /\ call = None
    /\ hpc = "idle"
    /\ hresult = None
    /\ ray0 = hray
    /\ d0 = MaxDepth
    /\ stack = <<>>
    /\ ret = None
    /\ queries = 0
    /\ shade = None
    /\ tpc = "idle"
    /\ tresult = None

ColorSpec == ColorInit /\ [][RenderWrite]_vars

(***************************************************************************)
(* Properties of HittableList::hit and of the primitives' hit              *)
(***************************************************************************)
\* what objects[k] alone reports for the query (hray, ht_min, ht_max)
OwnHit(k) == PrimHit(objects[k], hray, ht_min, ht_max)

\* what each primitive alone reports for the query
OwnHits == [k \in 1..Len(objects) |-> OwnHit(k)]

\* the primitives that report a hit, given what each reports
HittersOf(own) == {k \in DOMAIN own : IsSome(own[k])}

\* the primitives whose own hit is the nearest of all, given what each
\* reports
NearestOf(own) ==
    {k \in HittersOf(own) : \A j \in HittersOf(own) : RLe(own[k][1].t, own[j][1].t)}

Hitters == HittersOf(OwnHits)

Nearest == NearestOf(OwnHits)

SetMin(S) == CHOOSE k \in S : \A j \in S : k <= j
SetMax(S) == CHOOSE k \in S : \A j \in S : k >= j

\* the result is a hit iff some primitive reports one, and its t is the least
\* t any primitive reports, given what each reports
LeastOf(own) ==
    /\ IsSome(hresult) <=> HittersOf(own) # {}
    /\ IsSome(hresult) =>
           /\ \A k \in HittersOf(own) : RLe(hresult[1].t, own[k][1].t)
           /\ \E k \in HittersOf(own) : own[k][1].t = hresult[1].t

\* C1: HittableList::hit returns a hit iff some primitive reports one for
\* (ray, t_min, t_max), and the returned t is the least t any primitive reports
C1_NearestHit ==
    hpc = "done" => \E own \in {OwnHits} : LeastOf(own)

\* a query answered with a hit that is strictly nearer than the first
\* object's own hit, and strictly nearer than some other object's
C1_Witness ==
    /\ hpc = "done"
    /\ IsSome(hresult)
    /\ 1 \in Hitters
    /\ RLt(hresult[1].t, OwnHit(1)[1].t)
    /\ Len(objects) >= 2

\* the last call of the loop returned a record
CallHit == call # None /\ IsSome(call[1].res)

CallObj == objects[call[1].k]
CallRec == call[1].res[1]
CallOutward == PrimOutward(CallObj, hray, ht_min, call[1].t_max, CallRec)

\* the normal opposes the ray and is the outward normal or its negation, as
\* the outward normal's side of the ray tells
FacesRay(normal, outward) ==
    /\ RLe(Dot(hray.direction, normal), Zero)
    /\ RLt(Dot(hray.direction, outward), Zero) => normal = outward
    /\ RGe(Dot(hray.direction, outward), Zero) => normal = VNeg(outward)

\* C2: every record's normal opposes the ray, dot(direction, normal) <= 0; it
\* is the outward normal when dot(direction, outward) < 0 and its negation
\* when dot(direction, outward) >= 0
C2_FrontFace ==
    /\ CallHit => \E outward \in {CallOutward} : FacesRay(CallRec.normal, outward)
    /\ IsSome(hit_any) => RLe(Dot(hray.direction, hit_any[1].normal), Zero)
    /\ IsSome(hresult) => RLe(Dot(hray.direction, hresult[1].normal), Zero)

\* what the code does: the record's normal is the outward normal when
\* dot(direction, outward) < 0 and its negation in every other case, that of
\* a dot that is NaN included; it opposes the ray unless that dot is NaN
C2_FrontFaceOfCode ==
    CallHit =>
        \E outward \in {CallOutward} :
            /\ CallRec.normal = IF RLt(Dot(hray.direction, outward), Zero)
                                THEN outward ELSE VNeg(outward)
            /\ Dot(hray.direction, outward) # NaN
                   => RLe(Dot(hray.direction, CallRec.normal), Zero)

\* the record of the sphere of radius 0.0: its outward normal (p - center) /
\* radius is 0.0 / 0.0 on every axis
C2_WitnessNaN ==
    /\ CallHit
    /\ CallObj.kind = "Sphere"
    /\ REq(CallObj.radius, Zero)
    /\ CallRec.normal = Vec3(NaN, NaN, NaN)
    /\ ~RLe(Dot(hray.direction, CallRec.normal), Zero)

\* a record whose outward normal is orthogonal to the ray (a tangent hit),
\* and so was negated
C2_Witness ==
    /\ CallHit
    /\ \E outward \in {CallOutward} :
           /\ REq(Dot(hray.direction, outward), Zero)
           /\ ~REq(Length(outward), Zero)
           /\ CallRec.normal = VNeg(outward)

\* a record whose outward normal points along the ray (a hit from inside or
\* from behind), and so was negated
C2_WitnessBack ==
    /\ CallHit
    /\ RGt(Dot(hray.direction, CallOutward), Zero)

\* what the rounding of the operations may add to a length: 1e-9
Slack == Eps(9)

\* a and b are equal up to the rounding of the operations
Near(a, b) == RLe(RAbs(RSub(a, b)), Slack)

\* a <= b up to the rounding of the operations
AtMost(a, b) == RLe(a, RAdd(b, Slack))

\* the point p lies on the surface of the primitive obj, up to the rounding
\* of the operations
OnSphere(s, p) ==
    Near(Dot(VSub(p, s.center), VSub(p, s.center)), RMul(s.radius, s.radius))

OnPlane(pl, p) == Near(Dot(VSub(p, pl.point), pl.normal), Zero)

InBox(b, p) ==
    \A axis \in 0..2 :
        /\ AtMost(Axis(b.min, axis), Axis(p, axis))
        /\ AtMost(Axis(p, axis), Axis(b.max, axis))

OnBox(b, p) ==
    /\ InBox(b, p)
    /\ \E axis \in 0..2 :
           \/ Near(Axis(p, axis), Axis(b.min, axis))
           \/ Near(Axis(p, axis), Axis(b.max, axis))

\* on the lateral surface within the height band, or on a cap within the
\* disk
OnCylinder(cy, p) ==
    LET q == VSub(p, cy.center)
        rr == RAdd(RMul(q.x, q.x), RMul(q.z, q.z))
    IN  \/ /\ Near(rr, RMul(cy.radius, cy.radius))
           /\ AtMost(RAbs(q.y), RAdd(cy.half_height, CylTol))
        \/ /\ Near(RAbs(q.y), RAbs(cy.half_height))
           /\ AtMost(rr, RAdd(RMul(cy.radius, cy.radius), CylTol))

OnSurface(obj, p) ==
    CASE obj.kind = "Sphere" -> OnSphere(obj, p)
      [] obj.kind = "Plane" -> OnPlane(obj, p)
      [] obj.kind = "Cube" -> OnBox(obj.bounds, p)
      [] obj.kind = "Cylinder" -> OnCylinder(obj, p)

\* C3 as stated: a primitive's record has t strictly inside (t_min, t_max),
\* and t is an intersection of the ray with the primitive's surface
C3_OpenInterval ==
    CallHit =>
        /\ RLt(ht_min, CallRec.t)
        /\ RLt(CallRec.t, call[1].t_max)
        /\ OnSurface(CallObj, RayAt(hray, CallRec.t))

\* C3 amended: a primitive's record has t in the closed interval
\* [t_min, t_max] (a cube's is below t_max); a sphere's, a plane's and a
\* cylinder's t is an intersection with the surface, a cube's is the entry
\* into the box or, when the ray is inside the box at t_min, t_min itself
C3_ClosedInterval ==
    CallHit =>
        /\ RLe(ht_min, CallRec.t)
        /\ RLe(CallRec.t, call[1].t_max)
        /\ CallRec.p = RayAt(hray, CallRec.t)
        /\ CallObj.kind # "Cube" => OnSurface(CallObj, CallRec.p)
        /\ CallObj.kind = "Cube" =>
               /\ RLt(CallRec.t, call[1].t_max)
               /\ InBox(CallObj.bounds, CallRec.p)
               /\ OnBox(CallObj.bounds, CallRec.p) \/ CallRec.t = ht_min

\* a sphere, plane or cylinder reporting a hit at exactly t = t_max
C3_Witness ==
    /\ CallHit
    /\ CallObj.kind # "Cube"
    /\ CallRec.t = call[1].t_max
    /\ RLt(ht_min, CallRec.t)

\* C8 as stated: of the primitives that meet the ray at the same nearest t,
\* the first inserted supplies the returned record
C8_FirstInsertedWins ==
    (hpc = "done" /\ IsSome(hresult)) =>
        \E own \in {OwnHits} : \E nearest \in {NearestOf(own)} :
            hresult = own[SetMin(nearest)]

\* the nearest primitives that accept a hit at t = t_max: all but cubes
NonCube(among) == {k \in among : objects[k].kind # "Cube"}

\* the result is the record of the last of the non-cubes among the nearest
\* primitives, or of the first of these when they are all cubes
LastNonCubeAmong(own, nearest) ==
    \E others \in {NonCube(nearest)} :
        hresult = own[IF others # {} THEN SetMax(others) ELSE SetMin(nearest)]

\* C8 amended: of the primitives that meet the ray at the same nearest t,
\* the last inserted sphere, plane or cylinder supplies the returned record;
\* if they are all cubes, the first inserted does
C8_LastNonCubeWins ==
    (hpc = "done" /\ IsSome(hresult)) =>
        \E own \in {OwnHits} : \E nearest \in {NearestOf(own)} :
            LastNonCubeAmong(own, nearest)

\* two primitives tie at the nearest t and the later one's record, which
\* differs from the first one's, is returned
C8_Witness ==
    /\ hpc = "done"
    /\ IsSome(hresult)
    /\ Cardinality(Nearest) >= 2
    /\ hresult # OwnHit(SetMin(Nearest))
    /\ hresult = OwnHit(SetMax(Nearest))

\* C9: Plane::hit reports no hit for a ray whose direction is orthogonal to
\* the plane's normal, whatever its origin and the interval
C9_PlaneParallel ==
    (/\ call # None
     /\ CallObj.kind = "Plane"
     /\ REq(Dot(hray.direction, CallObj.normal), Zero)) => call[1].res = None

\* a plane was asked about a parallel ray that starts in the plane
C9_Witness ==
    /\ call # None
    /\ CallObj.kind = "Plane"
    /\ REq(Dot(hray.direction, CallObj.normal), Zero)
    /\ REq(Dot(VSub(CallObj.point, hray.origin), CallObj.normal), Zero)
    /\ call[1].res = None

\* the ray has no direction component on the axis and starts outside the
\* box's extent on it
OutsideParallel(b, r, axis) ==
    /\ REq(Axis(r.direction, axis), Zero)
    /\ \/ RLt(Axis(r.origin, axis), Axis(b.min, axis))
       \/ RGt(Axis(r.origin, axis), Axis(b.max, axis))

\* C10: Cube::hit reports no hit for a ray with a zero direction component
\* on an axis on which its origin is outside the cube's extent
C10_SlabNoHit ==
    (/\ call # None
     /\ CallObj.kind = "Cube"
     /\ \E axis \in 0..2 : OutsideParallel(CallObj.bounds, hray, axis))
        => call[1].res = None

\* a cube was asked about such a ray whose other two direction components
\* are not zero and whose origin is inside the extent on the later axes
C10_Witness ==
    /\ call # None
    /\ CallObj.kind = "Cube"
    /\ call[1].res = None
    /\ \E axis \in 0..2 :
           /\ OutsideParallel(CallObj.bounds, hray, axis)
           /\ \A other \in (0..2) \ {axis} : ~REq(Axis(hray.direction, other), Zero)

(***************************************************************************)
(* Properties of ray_color                                                 *)
(***************************************************************************)
\* every activation but the outermost was called by the one below it, after
\* a hit of clamped reflectivity > 0, with the caller's depth less one
C4_CalledAfterReflectiveHit ==
    \A i \in 2..Len(stack) :
        /\ stack[i - 1].pc = "reflect"
        /\ stack[i - 1].rec # None
        /\ RGt(RClamp(stack[i - 1].rec[1].reflectivity, Zero, One), Zero)
        /\ stack[i].depth = stack[i - 1].depth - 1

\* an activation that returned without calling itself missed (sky), hit a
\* surface of clamped reflectivity 0, or had no depth left
C4_TerminalOutcome ==
    ret # None /\ ret[1].kind # "blend" =>
        \/ ret[1].kind = "sky" /\ ret[1].frame.pc = "hit" /\ ret[1].frame.rec = None
        \/ /\ ret[1].kind = "local"
           /\ ret[1].frame.rec # None
           /\ REq(RClamp(ret[1].frame.rec[1].reflectivity, Zero, One), Zero)
        \/ ret[1].kind = "depth" /\ ret[1].frame.depth <= 0

\* C4: ray_color returns for every scene, ray and depth d >= 0; it calls
\* itself only after a hit of clamped reflectivity > 0 and with depth - 1,
\* so a trace makes at most d scene queries, and an activation that ends
\* without a call ends in sky, a hit of reflectivity 0 or depth exhaustion
C4_Terminates ==
    /\ [](/\ C4_CalledAfterReflectiveHit
          /\ C4_TerminalOutcome
          /\ (d0 >= 0 => queries <= d0))
    /\ <>(tpc = "done")

\* a closed pair of mirrors traced to the last bounce
C4_Witness ==
    /\ tpc = "done"
    /\ d0 = MaxDepth
    /\ queries = d0
    /\ \A k \in 1..Len(objects) :
           objects[k].kind = "Cube" /\ objects[k].reflectivity = One
    /\ ret[1].kind = "blend"

\* C5: ray_color entered with depth <= 0 returns the zero colour and makes
\* no scene query; so a trace of depth 0 yields the zero colour whatever
\* the ray would hit, and the call made from depth 1 hands back zero
C5_DepthExhaustion ==
    [][/\ (tpc = "run" /\ Top.pc = "enter" /\ Top.depth <= 0 =>
              /\ queries' = queries
              /\ stack' = SubSeq(stack, 1, Len(stack) - 1)
              /\ ret' # None
              /\ ret'[1].value = Vec3(Zero, Zero, Zero)
              /\ (Len(stack) = 1 => tpc' = "done"
                                    /\ tresult' = Some(Vec3(Zero, Zero, Zero))))
       /\ (tpc = "run" /\ Top.pc = "reflect" /\ Top.depth = 1 =>
              /\ ret # None
              /\ ret[1].value = Vec3(Zero, Zero, Zero)
              /\ ret'[1].value = VMulS(Top.local, RSub(One, Top.refl)))
      ]_vars

\* depth 0 on a ray that strikes a mirror
C5_Witness ==
    /\ tpc = "done"
    /\ d0 = 0
    /\ WorldHit(objects, ray0) # None
    /\ WorldHit(objects, ray0)[1].reflectivity = One
    /\ queries = 0
    /\ tresult = Some(Vec3(Zero, Zero, Zero))

\* the mirror ray of the ray r at the record rec
C6_MirrorRay(r, rec) ==
    [origin |-> VAdd(rec.p, VMulS(rec.normal, F(1, 10000))),
     direction |-> Unit(VSub(Unit(r.direction),
                             VMulS(rec.normal,
                                   RMul(I(2), Dot(Unit(r.direction), rec.normal)))))]

\* C6: a hit at depth > 0 on a surface of clamped reflectivity r returns
\* local*(1-r) + reflected*r, reflected being what ray_color returned for
\* the mirror ray at depth - 1; with r = 0 it returns local, with no call
\* and no scene query
C6_ReflectionBlend ==
    [][/\ (tpc = "run" /\ Top.pc = "reflect" =>
              /\ ret # None
              /\ ret[1].frame.r = C6_MirrorRay(Top.r, Top.rec[1])
              /\ ret[1].frame.depth = Top.depth - 1
              /\ Top.refl = RClamp(Top.rec[1].reflectivity, Zero, One)
              /\ ret'[1].value = VAdd(VMulS(Top.local, RSub(One, Top.refl)),
                                      VMulS(ret[1].value, Top.refl)))
       /\ (tpc = "run" /\ Top.pc = "shaded" =>
              /\ Top.local = shade[1].color
              /\ shade[1].hit_color = Top.rec[1].albedo
              /\ shade[1].normal = Top.rec[1].normal
              /\ shade[1].p = Top.rec[1].p)
       /\ (tpc = "run" /\ Top.pc = "shaded" /\ REq(Top.refl, Zero) =>
              /\ ret'[1].value = Top.local
              /\ queries' = queries
              /\ stack' = SubSeq(stack, 1, Len(stack) - 1))
      ]_vars

\* a blend of two different colours in unequal parts
C6_Witness ==
    /\ ret # None
    /\ ret[1].kind = "blend"
    /\ ret[1].frame.refl = F(1, 4)
    /\ ret[1].reflected[1] # Vec3(Zero, Zero, Zero)
    /\ ret[1].reflected[1] # ret[1].frame.local
    /\ ret[1].frame.depth > 1

(***************************************************************************)
(* Properties of the sky                                                   *)
(***************************************************************************)
\* C14: a ray that points straight down (unit direction y = -1), traced at
\* main's max_depth through a scene in which it meets no object, a scene with
\* no objects first of all, gets the sky gradient at the parameter
\* t = 0.5 * (-1 + 1) = 0, which is (1, 1, 1) before gamma
C14_SkyStraightDown ==
    (/\ tpc = "done"
     /\ d0 = MaxDepth
     /\ Unit(ray0.direction) = Vec3(Zero, I(-1), Zero)
     /\ \A k \in 1..Len(objects) :
            PrimHit(objects[k], ray0, TraceTMin, Infinity) = None)
        => /\ REq(SkyT(ray0), Zero)
           /\ tresult = Some(Vec3(One, One, One))

\* the trace of a ray straight down of length 2 through the scene with no
\* objects: one scene query, and the sky's (1, 1, 1)
C14_Witness ==
    /\ tpc = "done"
    /\ objects = <<>>
    /\ d0 = MaxDepth
    /\ ray0.direction = Vec3(Zero, I(-2), Zero)
    /\ queries = 1
    /\ ret[1].kind = "sky"
    /\ tresult = Some(Vec3(One, One, One))

\* the same under the canopy, a world build_scene makes, which lies behind
\* the ray
C14_WitnessCanopy ==
    /\ tpc = "done"
    /\ objects = <<Canopy>>
    /\ d0 = MaxDepth
    /\ ray0.direction = Vec3(Zero, I(-1), Zero)
    /\ queries = 1
    /\ ret[1].kind = "sky"
    /\ tresult = Some(Vec3(One, One, One))

(***************************************************************************)
(* Properties of shade_lambert_with_shadow                                 *)
(***************************************************************************)
\* the last shading call's distance and direction to the light, its shadow
\* ray, and the nearest crossing of that ray with objects[k] between the
\* bias and the light's distance less the bias, both ends included
C7_Dist == Length(VSub(light.position, shade[1].p))
C7_Dir == VDivS(VSub(light.position, shade[1].p), C7_Dist)
C7_Ray ==
    [origin |-> VAdd(shade[1].p, VMulS(shade[1].normal, F(1, 10000))),
     direction |-> C7_Dir]
C7_Crossing(k) ==
    PrimHit(objects[k], C7_Ray, F(1, 10000), RSub(C7_Dist, F(1, 10000)))

\* some primitive is crossed between the two ends, the ends included
C7_Occluded == \E k \in 1..Len(objects) : IsSome(C7_Crossing(k))

\* some primitive's nearest crossing lies strictly between the two ends
C7_OccludedInside ==
    \E k \in 1..Len(objects) :
        /\ IsSome(C7_Crossing(k))
        /\ RLt(F(1, 10000), C7_Crossing(k)[1].t)
        /\ RLt(C7_Crossing(k)[1].t, RSub(C7_Dist, F(1, 10000)))

C7_Facing == RGt(Dot(shade[1].normal, C7_Dir), Zero)

\* the colour with the lighting factor 0.12 + diffuse
C7_Colour(diffuse) ==
    VMulV(VMulS(shade[1].hit_color, RAdd(F(3, 25), diffuse)), light.intensity)

\* C7 as stated: the diffuse term is 0 exactly when a primitive is crossed
\* strictly inside (bias, light_distance - bias) or dot(normal, light_dir) <= 0
C7_OpenInterval ==
    shade # None =>
        (shade[1].color = C7_Colour(Zero) <=> C7_OccludedInside \/ ~C7_Facing)

\* C7 amended: the diffuse term is 0 exactly when a primitive is crossed in
\* [bias, light_distance - bias] or dot(normal, light_dir) <= 0; an occluded
\* point gets albedo * 0.12 * intensity, and a point that faces the light
\* with no crossing before light_distance - bias gets the diffuse term
\* dot(normal, light_dir)
C7_ClosedInterval ==
    shade # None =>
        /\ shade[1].color = C7_Colour(Zero) <=> C7_Occluded \/ ~C7_Facing
        /\ C7_Occluded => shade[1].color = C7_Colour(Zero)
        /\ ~C7_Occluded /\ C7_Facing =>
               shade[1].color = C7_Colour(Dot(shade[1].normal, C7_Dir))

\* a point that faces the light behind an occluder, and past the light a
\* second primitive
C7_Witness ==
    /\ shade # None
    /\ C7_Facing
    /\ C7_OccludedInside
    /\ shade[1].color = C7_Colour(Zero)

\* a lit point with a primitive only beyond the light
C7_WitnessBeyond ==
    /\ shade # None
    /\ C7_Facing
    /\ ~C7_Occluded
    /\ \E k \in 1..Len(objects) :
           IsSome(PrimHit(objects[k], C7_Ray, F(1, 10000), Infinity))
    /\ shade[1].color # C7_Colour(Zero)

\* an unoccluded point that the light grazes
C7_WitnessGrazing ==
    /\ shade # None
    /\ ~C7_Facing
    /\ ~C7_Occluded
    /\ shade[1].color = C7_Colour(Zero)

(***************************************************************************)
(* Properties of main's render loop                                        *)
(***************************************************************************)
IsFinite(a) == ~IsSpecial(a)

InUnit(a) == IsFinite(a) /\ RLe(Zero, a) /\ RLe(a, One)

\* C11: for every accepted width >= 1 and height >= 1, every pixel and every
\* jitter in [0, 1), the (u, v) handed to Camera::get_ray are well defined
\* (no division by zero) and both lie in [0, 1]
C11_UVInUnitSquare ==
    uv # None => InUnit(uv[1][1]) /\ InUnit(uv[1][2])

\* what the code does instead: u is (i + jitter) / (width - 1), which is not
\* finite when width = 1 and exceeds 1 in the last column for a jitter above
\* 0; otherwise it is in [0, 1].  The same for v, j and height
C11_UOfCode ==
    uv # None /\ px_s > 0 =>
        /\ (width = 1 => ~IsFinite(uv[1][1]))
        /\ (width > 1 /\ px_i < width - 1 => InUnit(uv[1][1]))
        /\ (width > 1 /\ px_i = width - 1 =>
                IsFinite(uv[1][1]) /\ RGe(uv[1][1], One))
        /\ (height = 1 => ~IsFinite(uv[1][2]))
        /\ (height > 1 /\ px_j < height - 1 => InUnit(uv[1][2]))
        /\ (height > 1 /\ px_j = height - 1 =>
                IsFinite(uv[1][2]) /\ RGe(uv[1][2], One))

\* a sample of the last column of a 2-wide image with a jitter above 0
C11_Witness ==
    /\ uv # None
    /\ width = 2
    /\ px_i = 1
    /\ uv[1][1] = F(3, 2)

\* the pixel lines written so far
PixelLines == SubSeq(out, 4, Len(out))

\* the pixel the k-th pixel line (from 0) belongs to
PixelOf(k) == <<k % width, (height - 1) - (k \div width)>>

\* C12: the output starts with the lines P3, "<width> <height>", 255, and
\* then holds one line per pixel in row-major order from row height - 1 down
\* to row 0 and column 0 up to width - 1: the k-th pixel line belongs to pixel
\* (k mod width, height - 1 - k div width), each pixel is written once, after
\* exactly samples_per_pixel samples, and a finished render has written
\* width * height pixel lines
C12_RowMajorOutput ==
    /\ (rpc = "header") = (out = <<>>)
    /\ out # <<>> =>
           /\ Len(out) >= 3
           /\ out[1].text = <<"P3">>
           /\ out[2].text = <<width, height>>
           /\ out[3].text = <<255>>
    /\ \A k \in 1..Len(PixelLines) :
           /\ <<PixelLines[k].i, PixelLines[k].j>> = PixelOf(k - 1)
           /\ PixelLines[k].samples = samples_per_pixel
    /\ \A k, l \in 1..Len(PixelLines) :
           (PixelLines[k].i = PixelLines[l].i /\ PixelLines[k].j = PixelLines[l].j)
               => k = l
    /\ rpc = "pixels" =>
           /\ Len(PixelLines) < width * height
           /\ <<px_i, px_j>> = PixelOf(Len(PixelLines))
           /\ px_s <= samples_per_pixel
    /\ rpc = "done" => Len(PixelLines) = width * height

\* a finished render of more than one row and column, more than one sample
\* each
C12_Witness ==
    /\ rpc = "done"
    /\ width = 3
    /\ height = 2
    /\ samples_per_pixel = 2
    /\ Len(out) = 9
    /\ out[4].i = 0 /\ out[4].j = 1
    /\ out[9].i = 2 /\ out[9].j = 0

(***************************************************************************)
(* Properties of write_color                                               *)
(***************************************************************************)
\* b is trunc(256 * clamp(sqrt(avg), 0, 0.999)) for avg >= 0: 255 from the
\* clamp's upper end on, else the b with (b/256)^2 <= avg and
\* sqrt(avg) < (b+1)/256
IsByteOf(b, avg) ==
    /\ b \in 0..255
    /\ IF RGe(Sqrt(avg), F(999, 1000)) THEN b = 255
       ELSE /\ RLe(F(b * b, 65536), avg)
            /\ RLt(Sqrt(avg), F(b + 1, 256))

\* the byte write_color emits for the channel sum c
ByteOfSum(c) == ChannelByte(c, samples_per_pixel)

\* what C13 says of the byte b emitted for the accumulated sum c
ByteRight(b, c) ==
    /\ IsByteOf(b, RDiv(c, I(samples_per_pixel)))
    /\ REq(c, Zero) => b = 0
    /\ RGe(RDiv(c, I(samples_per_pixel)), One) => b = 255
    /\ \A c2 \in ChannelSums : RLe(c2, c) => ByteOfSum(c2) <= b

\* C13: for a non-negative accumulated channel sum and spp >= 1 write_color
\* emits an integer in [0, 255] equal to
\* trunc(256 * clamp(sqrt(sum / spp), 0, 0.999)); it is monotone
\* non-decreasing in the sum, 0 for a sum of 0 and 255 for an averaged value
\* of 1 or more
C13_ByteOfChannel ==
    rgb # None =>
        /\ ByteRight(rgb[1], pixel_color.x)
        /\ ByteRight(rgb[2], pixel_color.y)
        /\ ByteRight(rgb[3], pixel_color.z)

\* a pixel written with a zero channel, a channel inside the range and a
\* channel whose average is above 1
C13_Witness ==
    /\ rgb = <<0, 128, 255>>
    /\ samples_per_pixel = 2
    /\ pixel_color = Vec3(Zero, F(1, 2), I(4))

(***************************************************************************)
(* Properties of one primitive's constructor and hit                       *)
(***************************************************************************)
ZeroVec == Vec3(Zero, Zero, Zero)

\* C15: Vec3::unit returns a vector of zero length unchanged, without a
\* division, and any other vector divided by its length; a Plane built with a
\* zero normal stores the zero normal and its hit never returns a hit
C15_UnitOfZero ==
    (ctor # None /\ ctor.kind = "Plane") =>
        IF REq(Length(ctor.normal), Zero)
        THEN /\ objects[1].normal = ctor.normal
             /\ call # None => call[1].res = None
             /\ hpc = "done" => hresult = None
        ELSE /\ objects[1].normal = VDivS(ctor.normal, Length(ctor.normal))
             /\ VMulS(objects[1].normal, Length(ctor.normal)) = ctor.normal
             /\ LengthSquared(objects[1].normal) = One

\* a finished query of the plane built with the zero normal, by a ray that
\* crosses the plane's point's height
C15_Witness ==
    /\ ctor # None /\ ctor.kind = "Plane" /\ ctor.normal = ZeroVec
    /\ hray = Ray(Vec3(Zero, One, I(-2)), Vec3(Zero, I(-1), Zero))
    /\ ht_max = Infinity
    /\ hpc = "done"
    /\ hresult = None

\* a plane built with a normal of length 5
C15_WitnessUnit ==
    /\ ctor # None /\ ctor.kind = "Plane" /\ ctor.normal = Vec3(Zero, I(3), I(4))
    /\ objects[1].normal = Vec3(Zero, F(3, 5), F(4, 5))
    /\ hpc = "done"

\* the discriminant of the ray against the sphere built from c, from the
\* half-b form: (oc . d)^2 - (d . d) (oc . oc - radius^2)
Discriminant(c, r) ==
    RSub(RMul(Dot(VSub(r.origin, c.center), r.direction),
              Dot(VSub(r.origin, c.center), r.direction)),
         RMul(Dot(r.direction, r.direction),
              RSub(Dot(VSub(r.origin, c.center), VSub(r.origin, c.center)),
                   RMul(c.radius, c.radius))))

\* t lies in the queried interval, its ends included
InInterval(t) == RLe(ht_min, t) /\ RLe(t, ht_max)

\* the record res is a hit of the sphere built from c at the root t: its point
\* is the ray's at t, its normal (p - center) / radius turned against the ray
SphereHitAt(c, res, t) ==
    /\ res # None
    /\ res[1].t = t
    /\ res[1].p = RayAt(hray, t)
    /\ LET outward == VDivS(VSub(res[1].p, c.center), c.radius)
       IN  res[1].normal = IF RLt(Dot(hray.direction, outward), Zero)
                           THEN outward ELSE VNeg(outward)

\* C16: Sphere::hit returns the smaller root r1 when r1 is inside the
\* interval, else the larger root r2 when r2 is inside it, else no hit; no
\* hit when the discriminant is negative; the outward normal is
\* (hit point - center) / radius.  The ray from the origin along -z hits the
\* sphere of centre (0, 0, -1) and radius 1/2 at t = 1/2, normal (0, 0, 1)
C16_SphereRoots ==
    (ctor # None /\ ctor.kind = "Sphere" /\ hpc = "done") =>
        LET roots == SphereRoots(objects[1], hray)
        IN  /\ RLt(Discriminant(ctor, hray), Zero) => hresult = None
            /\ roots = <<>> <=> RLt(Discriminant(ctor, hray), Zero)
            /\ roots # <<>> =>
                   /\ RLe(roots[1], roots[2])
                   /\ InInterval(roots[1]) => SphereHitAt(ctor, hresult, roots[1])
                   /\ (~InInterval(roots[1]) /\ InInterval(roots[2]))
                          => SphereHitAt(ctor, hresult, roots[2])
                   /\ (~InInterval(roots[1]) /\ ~InInterval(roots[2]))
                          => hresult = None
                   /\ OnSphere(ctor, RayAt(hray, roots[1]))
                   /\ OnSphere(ctor, RayAt(hray, roots[2]))
            /\ (ctor.center = Vec3(Zero, Zero, I(-1))
                /\ hray = Ray(ZeroVec, Vec3(Zero, Zero, I(-1)))
                /\ InInterval(F(1, 2)))
                   => /\ hresult # None
                      /\ hresult[1].t = F(1, 2)
                      /\ hresult[1].normal = Vec3(Zero, Zero, One)

\* the example of the claim, queried as ray_color does
C16_Witness ==
    /\ ctor # None /\ ctor.kind = "Sphere"
    /\ ctor.center = Vec3(Zero, Zero, I(-1)) /\ ctor.radius = F(1, 2)
    /\ hray = Ray(ZeroVec, Vec3(Zero, Zero, I(-1)))
    /\ ht_min = F(1, 1000) /\ ht_max = Infinity
    /\ hpc = "done"
    /\ hresult # None
    /\ hresult[1].t = F(1, 2)
    /\ hresult[1].normal = Vec3(Zero, Zero, One)

\* a ray that starts inside the sphere: the smaller root is behind it and the
\* larger one is returned
C16_WitnessFar ==
    /\ ctor # None /\ ctor.kind = "Sphere"
    /\ ctor.center = Vec3(Zero, Zero, I(-2))
    /\ hray = Ray(Vec3(Zero, Zero, I(-2)), Vec3(Zero, Zero, I(-1)))
    /\ hpc = "done"
    /\ hresult # None
    /\ hresult[1].t = F(1, 2)
    /\ SphereRoots(objects[1], hray) = <<F(-1, 2), F(1, 2)>>

\* the ray in the frame of the cylinder built from c: its point at t
LocalAt(c, r, t) == VAdd(VSub(r.origin, c.center), VMulS(r.direction, t))

\* the roots of the lateral quadratic a t^2 + b t + c = 0 in (x, z); none when
\* the ray runs along the axis or the discriminant is negative
SideRoots(c, r) ==
    LET ro == VSub(r.origin, c.center)
        rd == r.direction
        qa == RAdd(RMul(rd.x, rd.x), RMul(rd.z, rd.z))
        qb == RMul(I(2), RAdd(RMul(ro.x, rd.x), RMul(ro.z, rd.z)))
        qc == RSub(RAdd(RMul(ro.x, ro.x), RMul(ro.z, ro.z)), RMul(c.radius, c.radius))
        disc == RSub(RMul(qb, qb), RMul(RMul(I(4), qa), qc))
    IN  IF ~RGt(RAbs(qa), CylEps) \/ RLt(disc, Zero) THEN {}
        ELSE { RDiv(RSub(RNeg(qb), Sqrt(disc)), RMul(I(2), qa)),
               RDiv(RAdd(RNeg(qb), Sqrt(disc)), RMul(I(2), qa)) }

\* the valid candidates, each with its outward normal: the lateral roots
\* whose y lies in the height band, the cap crossings whose (x, z) lies in
\* the disk (both up to the code's tolerance of 1e-9), inside the interval
SideCandidates(c, r) ==
    { [t |-> t,
       outward |-> Unit(Vec3(RDiv(LocalAt(c, r, t).x, c.radius), Zero,
                             RDiv(LocalAt(c, r, t).z, c.radius)))] :
        t \in { t \in SideRoots(c, r) :
                   /\ InInterval(t)
                   /\ RLe(RSub(RNeg(c.half_height), CylTol), LocalAt(c, r, t).y)
                   /\ RLe(LocalAt(c, r, t).y, RAdd(c.half_height, CylTol)) } }

CapCandidates(c, r) ==
    IF RLt(RAbs(r.direction.y), CylEps) THEN {}
    ELSE { [t |-> RDiv(RSub(RMul(I(sgn), c.half_height), VSub(r.origin, c.center).y),
                       r.direction.y),
            outward |-> Vec3(Zero, I(sgn), Zero)] : sgn \in {1, -1} }

ValidCapCandidates(c, r) ==
    { cand \in CapCandidates(c, r) :
        /\ InInterval(cand.t)
        /\ RLe(RAdd(RMul(LocalAt(c, r, cand.t).x, LocalAt(c, r, cand.t).x),
                    RMul(LocalAt(c, r, cand.t).z, LocalAt(c, r, cand.t).z)),
               RAdd(RMul(c.radius, c.radius), CylTol)) }

Candidates(c, r) == SideCandidates(c, r) \cup ValidCapCandidates(c, r)

\* C17: Cylinder::hit returns the candidate of the smallest t among the valid
\* candidates of both families, the lateral roots inside the height band and
\* the cap crossings inside the disk, each inside the queried interval; a
\* candidate examined later never replaces an accepted one of strictly
\* smaller t; the outward normal is the returned candidate's: radial for the
\* side, +Y for the top cap, -Y for the bottom cap
C17_CylinderNearest ==
    (ctor # None /\ ctor.kind = "Cylinder" /\ hpc = "done") =>
        /\ Candidates(ctor, hray) = {} <=> hresult = None
        /\ hresult # None =>
               /\ \A cand \in Candidates(ctor, hray) : RLe(hresult[1].t, cand.t)
               /\ \E cand \in Candidates(ctor, hray) :
                      /\ cand.t = hresult[1].t
                      /\ hresult[1].p = RayAt(hray, cand.t)
                      /\ hresult[1].normal =
                             IF RLt(Dot(hray.direction, cand.outward), Zero)
                             THEN cand.outward ELSE VNeg(cand.outward)

\* a ray that enters through the top cap and leaves through the side: the
\* side root is accepted first and the nearer cap crossing replaces it
C17_Witness ==
    /\ ctor # None /\ ctor.kind = "Cylinder"
    /\ hray = Ray(Vec3(Zero, F(7, 10), I(-2)), Vec3(One, I(-1), Zero))
    /\ ht_max = Infinity
    /\ hpc = "done"
    /\ hresult # None
    /\ Near(hresult[1].t, F(3, 10))
    /\ hresult[1].normal = Vec3(Zero, One, Zero)
    /\ \E cand \in SideCandidates(ctor, hray) :
           /\ Near(cand.t, F(1, 2))
           /\ RLt(hresult[1].t, cand.t)

\* a ray that enters through the side and leaves through the bottom cap: the
\* later cap crossing does not replace the side root
C17_WitnessSide ==
    /\ ctor # None /\ ctor.kind = "Cylinder"
    /\ hray = Ray(Vec3(I(-1), F(1, 5), I(-2)), Vec3(One, F(-2, 5), Zero))
    /\ ht_max = Infinity
    /\ hpc = "done"
    /\ hresult # None
    /\ Near(hresult[1].t, F(1, 2))
    /\ hresult[1].normal = Vec3(I(-1), Zero, Zero)
    /\ \E cand \in ValidCapCandidates(ctor, hray) :
           /\ Near(cand.t, F(3, 2))
           /\ RLt(hresult[1].t, cand.t)

\* a == b on every component, which takes 0.0 and -0.0 for equal
VEq(a, b) == REq(a.x, b.x) /\ REq(a.y, b.y) /\ REq(a.z, b.z)

\* the unit vector of the axis, times sgn
AxisNormal(axis, sgn) ==
    Vec3(IF axis = 0 THEN I(sgn) ELSE Zero,
         IF axis = 1 THEN I(sgn) ELSE Zero,
         IF axis = 2 THEN I(sgn) ELSE Zero)

\* the axes the ray is not parallel to
CrossedAxes(r) == { axis \in 0..2 : ~RLt(RAbs(Axis(r.direction, axis)), SlabEps) }

\* the distance at which the ray enters the slab of the axis: through the min
\* face when it runs up the axis, through the max face when it runs down
EntryT(b, r, axis) ==
    RDiv(RSub(IF RGt(Axis(r.direction, axis), Zero)
              THEN Axis(b.min, axis) ELSE Axis(b.max, axis),
              Axis(r.origin, axis)),
         Axis(r.direction, axis))

\* the record rec is a hit of the box b on the face the ray enters by: t is
\* the largest entry bound, the point is on the box, the normal is the unit
\* normal of that axis against the direction
EntersByFace(b, r, rec) ==
    /\ OnBox(b, rec.p)
    /\ ~VEq(rec.normal, ZeroVec)
    /\ \E axis \in CrossedAxes(r) :
           /\ rec.t = EntryT(b, r, axis)
           /\ \A other \in CrossedAxes(r) : RLe(EntryT(b, r, other), rec.t)
           /\ VEq(rec.normal, AxisNormal(axis, IF RGt(Axis(r.direction, axis), Zero)
                                                THEN -1 ELSE 1))

\* C18: whenever Cube::hit returns a hit, t is the ray's entry distance into
\* the box (the point ray.at(t) lies on a face) and the outward normal is the
\* axis-aligned unit normal of the face entered: the axis of the largest
\* entry bound, with sign -1 for a positive direction component and +1 for a
\* negative one; the normal is never the zero vector
C18_EntryFace ==
    (ctor # None /\ ctor.kind = "Cube" /\ hpc = "done" /\ hresult # None)
        => EntersByFace(objects[1].bounds, hray, hresult[1])

\* what the code does: the claim's hit when the box is entered after t_min,
\* and else, the ray being inside the box at t_min, a hit at t_min itself
\* with the zero normal
C18_EntryFaceOfCode ==
    (ctor # None /\ ctor.kind = "Cube" /\ hpc = "done" /\ hresult # None)
        => IF RGt(hresult[1].t, ht_min)
           THEN EntersByFace(objects[1].bounds, hray, hresult[1])
           ELSE /\ hresult[1].t = ht_min
                /\ VEq(hresult[1].normal, ZeroVec)
                /\ InBox(objects[1].bounds, hresult[1].p)

\* a ray from the centre of the cube: a hit at t_min = 0.001, inside the box,
\* with the zero normal
C18_WitnessInside ==
    /\ ctor # None /\ ctor.kind = "Cube"
    /\ hray = Ray(Vec3(Zero, Zero, I(-2)), Vec3(Zero, Zero, I(-1)))
    /\ ht_min = F(1, 1000)
    /\ hpc = "done"
    /\ hresult # None
    /\ hresult[1].t = F(1, 1000)
    /\ VEq(hresult[1].normal, ZeroVec)
    /\ ~OnBox(objects[1].bounds, hresult[1].p)

\* a ray from outside: the hit on the face z = -3/2 with the normal +z
C18_WitnessOutside ==
    /\ ctor # None /\ ctor.kind = "Cube"
    /\ hray = Ray(ZeroVec, Vec3(Zero, Zero, I(-1)))
    /\ hpc = "done"
    /\ hresult # None
    /\ hresult[1].t = F(3, 2)
    /\ VEq(hresult[1].normal, Vec3(Zero, Zero, One))

(***************************************************************************)
(* C19                                                                     *)
(***************************************************************************)
\* the record carries the albedo and the reflectivity of the constructor
\* call c
CarriesMaterial(rec, c) ==
    rec.albedo = c.albedo /\ rec.reflectivity = c.reflectivity

\* the arguments of the constructor call behind objects[k]
CallOf(k) == CustomCalls(ctor)[k]

\* one iteration of HittableList::hit: a record returned by primitive idx
\* carries the material of its constructor call and becomes the running
\* result as it is; without a record the running result stays
C19_StepKeepsRecord ==
    HitStep =>
        IF IsSome(call'[1].res)
        THEN /\ CarriesMaterial(call'[1].res[1], CallOf(call'[1].k))
             /\ hit_any' = call'[1].res
        ELSE hit_any' = hit_any

\* the return of HittableList::hit hands out the running result as it is
C19_ReturnKeepsRecord == HitReturn => hresult' = hit_any

C19_WitnessPlane ==
    /\ hpc = "done"
    /\ IsSome(hresult)
    /\ call[1].res = hresult
    /\ CallOf(call[1].k).kind = "Plane"
    /\ CallOf(call[1].k).reflectivity = F(1, 4)
    /\ hresult[1].albedo = CallOf(call[1].k).albedo
    /\ hresult[1].reflectivity = F(1, 4)

C19_WitnessFloor ==
    /\ hpc = "done"
    /\ ctor.add_planes = <<>>
    /\ IsSome(hresult)
    /\ call[1].k = Len(objects)
    /\ call[1].res = hresult
    /\ hresult[1].reflectivity = F(1, 20)

====
